---- MODULE Spec2Model ----
(***************************************************************************)
(* A model of the SugarboxEngine snapshot store and history cursor         *)
(* (src/unnamed/part_011): the initial state, the array of sparse          *)
(* snapshots, the cursor index, the fold that materializes a state, the    *)
(* merge that frees capacity, and the public operations that move the      *)
(* cursor or change the snapshots.                                         *)
(*                                                                         *)
(* Conventions.                                                            *)
(*  - A state or snapshot is a function from Keys to a value.  Undef       *)
(*    stands for JavaScript's undefined; a key that is absent from an      *)
(*    object and a key that is present with the value undefined are the    *)
(*    same here, as they are for every loop of the source (`for .. in`     *)
(*    followed by `!== undefined`).  Null is JavaScript's null.            *)
(*  - #stateSnapshots is a sequence; the source's index i is position i+1. *)
(*  - A handler is an operator from the engine record                      *)
(*    [initialState, stateSnapshots, index] to [e |-> engine after the     *)
(*    call, threw |-> whether the call ended by throwing].  A handler that *)
(*    throws half way keeps the assignments made before the throw.         *)
(*  - The operators named after the source's methods are the engine        *)
(*    without a cache adapter (the default: `cache` is optional); the ones *)
(*    that end in Cached thread #stateCache through the same code.         *)
(***************************************************************************)
EXTENDS Integers, Sequences, FiniteSets, TLC

VARIABLES
    initialState,    \* #initialState
    stateSnapshots,  \* #stateSnapshots
    index,           \* #index
    config,          \* #config: maxStateCount, stateMergeCount, regenSeed,
                     \* saveVersion, saveCompatibilityMode, cache (whether
                     \* a cache adapter was given)
    stateCache,      \* the entries of the cache adapter #stateCache
    saveMigrationMap,\* #saveMigrationMap
    persistence,     \* the entries of the persistence adapter
    achievements,    \* #achievements
    settingsData,    \* #settings
    exported,        \* the strings saveToExport has returned to the story
    pending,         \* the calls of asynchronous handlers that have not
                     \* returned yet, in the order they were made
    clock,           \* the time `new Date()` reads
    otherPending,    \* what persistence.set has been called with by the
                     \* engine of another name and the adapter has not
                     \* written yet
    last             \* the last step: the call made or resumed, its
                     \* arguments and its outcome

vars == <<initialState, stateSnapshots, index, config, stateCache,
          saveMigrationMap, persistence, achievements, settingsData,
          exported, pending, clock, otherPending, last>>

\* the achievements, the settings and the exports the story holds
profile == <<achievements, settingsData, exported>>

\* the calls in flight and the time
awaited == <<pending, clock, otherPending>>

\* what the operations on the history leave alone
settings ==
    <<config, stateCache, saveMigrationMap, persistence, profile, awaited>>

----------------------------------------------------------------------------
(* Bounds of the model *)

\* user variables take the values null, 1 .. MaxVal
MaxVal == 1
\* forward / backward are called with 0 .. MaxStep steps
MaxStep == 2
\* PRNG seeds are 0 .. SeedMod - 1
SeedMod == 2
\* the histories drawn as inputs of the fold and of the merge hold up to
\* this many snapshots
MaxFoldLen == 3
\* the major, minor and patch numbers of the versions drawn as inputs of the
\* compatibility check are 0 .. MaxVersionPart
MaxVersionPart == 3
MigrateMod == 5
\* up to this many calls of asynchronous handlers are in flight at a time
MaxPending == 2
\* the time `new Date()` reads goes from 0 to this
MaxClock == 1

----------------------------------------------------------------------------
(* Values *)

Undef == "undefined"
Null == "null"

UserKeys == {"gold"}
Keys == UserKeys \cup {"__id", "__seed"}

StartPassage == "Start"
\* the ids added with addPassages in the constructor
Passages == {"Start", "Shop"}
\* the ids navigateTo is called with; "Nowhere" was never added
PassageIds == Passages \cup {"Nowhere"}

\* every value is a string, so that any two values can be compared
UserVals == {Null} \cup {ToString(n) : n \in 1 .. MaxVal}
Seeds == {ToString(n) : n \in 0 .. (SeedMod - 1)}
SeedNum(seed) == CHOOSE n \in 0 .. (SeedMod - 1) : ToString(n) = seed

EmptySnapshot == [k \in Keys |-> Undef]

Min(a, b) == IF a < b THEN a ELSE b
Max(a, b) == IF a > b THEN a ELSE b

----------------------------------------------------------------------------
(* The snapshot store: pure functions of the engine record e *)

Engine(init, snaps, idx) ==
    [initialState |-> init, stateSnapshots |-> snaps, index |-> idx]

\* get #snapshotCount
snapshotCount(e) == Len(e.stateSnapshots)

\* get #lastSnapshotIndex
lastSnapshotIndex(e) == snapshotCount(e) - 1

\* #getSnapshotAtIndex throws a RangeError exactly when the array holds no
\* element at the index
HasSnapshotAtIndex(e, i) == i >= 0 /\ i < snapshotCount(e)

getSnapshotAtIndex(e, i) == e.stateSnapshots[i + 1]

\* a fold step that also drops null entries
ApplySnapshotSkippingNull(state, partialUpdate) ==
    [k \in Keys |->
        IF partialUpdate[k] # Undef /\ partialUpdate[k] # Null
        THEN partialUpdate[k] ELSE state[k]]

\* the inner loop of #getStateAtIndex and of #mergeSnapshots: every entry of
\* the snapshot that is not undefined overwrites the accumulated value
ApplySnapshot(state, partialUpdate) ==
    [k \in Keys |->
        IF partialUpdate[k] # Undef THEN partialUpdate[k] ELSE state[k]]

\* the outer loop of #getStateAtIndex: snapshots i .. effectiveIndex, in order
RECURSIVE FoldSnapshots(_, _, _, _)
FoldSnapshots(state, snaps, i, effectiveIndex) ==
    IF i > effectiveIndex THEN state
    ELSE FoldSnapshots(ApplySnapshot(state, snaps[i + 1]), snaps, i + 1,
                       effectiveIndex)

\* #getStateAtIndex, without a cache: the index is clamped into the array
getStateAtIndex(e, i) ==
    LET effectiveIndex == Min(Max(0, i), snapshotCount(e) - 1)
    IN  FoldSnapshots(e.initialState, e.stateSnapshots, 0, effectiveIndex)

\* get #varsWithMetadata
varsWithMetadata(e) == getStateAtIndex(e, e.index)

\* get passageId
passageId(e) == varsWithMetadata(e)["__id"]

\* get #currentStatePrngSeed
currentStatePrngSeed(e) == varsWithMetadata(e)["__seed"]

\* a combination in which the first write of a key wins
RECURSIVE CombineFirstWins(_, _, _, _)
CombineFirstWins(combined, snaps, indexes, i) ==
    IF i >= Len(snaps) THEN combined
    ELSE CombineFirstWins(
             IF i \in indexes THEN ApplySnapshot(snaps[i + 1], combined)
             ELSE combined,
             snaps, indexes, i + 1)

\* the combined snapshot #mergeSnapshots builds while it walks the array
RECURSIVE CombineSnapshots(_, _, _, _)
CombineSnapshots(combined, snaps, indexes, i) ==
    IF i >= Len(snaps) THEN combined
    ELSE CombineSnapshots(
             IF i \in indexes THEN ApplySnapshot(combined, snaps[i + 1])
             ELSE combined,
             snaps, indexes, i + 1)

\* the array #mergeSnapshots builds: the snapshots outside the range as they
\* are, and the combined snapshot pushed when the walk reaches upperIndex
RECURSIVE MergedArray(_, _, _, _, _)
MergedArray(snaps, indexes, upperIndex, combined, i) ==
    IF i >= Len(snaps) THEN << >>
    ELSE (IF i \in indexes
          THEN (IF i = upperIndex THEN <<combined>> ELSE << >>)
          ELSE <<snaps[i + 1]>>)
         \o MergedArray(snaps, indexes, upperIndex, combined, i + 1)

\* #mergeSnapshots(lowerIndex, upperIndex).  Array(difference + 1) throws a
\* RangeError when difference + 1 is negative.
mergeSnapshots(e, lowerIndex, upperIndexArg) ==
    LET lastIndex == lastSnapshotIndex(e)
        upperIndex == Min(upperIndexArg, lastIndex)
        difference == upperIndex - lowerIndex
        indexesToMerge == {lowerIndex + i : i \in 0 .. difference}
        combinedSnapshot ==
            CombineSnapshots(EmptySnapshot, e.stateSnapshots, indexesToMerge, 0)
    IN  IF lastIndex < 1 \/ upperIndexArg < lowerIndex
        THEN [e |-> e, threw |-> FALSE]
        ELSE IF difference + 1 < 0
        THEN [e |-> e, threw |-> TRUE]
        ELSE [e |-> Engine(e.initialState,
                           MergedArray(e.stateSnapshots, indexesToMerge,
                                       upperIndex, combinedSnapshot, 0),
                           e.index - difference),
              threw |-> FALSE]

----------------------------------------------------------------------------
(* The PRNG of @iceman8911/tiny-prng, abstracted to a permutation of the   *)
(* seeds: the engine only relies on it being a deterministic function of   *)
(* the seed it is constructed from.                                        *)

\* new PRNG(seed).next(): the number navigateTo stores as the next seed
PrngNext(seed) == ToString((SeedNum(seed) + 1) % SeedMod)

\* prng.seed after one nextFloat(): the seed `random` stores on each call
PrngSeedAfterFloat(seed) == ToString((SeedNum(seed) + 1) % SeedMod)

\* new PRNG(seed).nextFloat(): the number `random` returns
PrngFloat(seed) == seed

----------------------------------------------------------------------------
(* Semantic versions (src/src/utils/version.ts): a version is the tuple     *)
(* <<major, minor, patch>>.                                                 *)

VersionInputs ==
    (0 .. MaxVersionPart) \X (0 .. MaxVersionPart) \X (0 .. MaxVersionPart)

CompatibilityModes == {"strict", "liberal"}

\* SemanticVersion.toString(), also __toJSON()
VersionToString(version) ==
    ToString(version[1]) \o "." \o ToString(version[2]) \o "."
        \o ToString(version[3])

\* SemanticVersion.__fromJSON(serializedData): the version whose three
\* numbers are the ones the string holds between its dots
VersionFromJSON(serializedData) ==
    CHOOSE version \in VersionInputs :
        VersionToString(version) = serializedData

\* a check in which a lower minor is outdated in liberal mode too
isSaveCompatibleIgnoringMode(saveVersion, engineVersion, compatibilityMode) ==
    LET svMajor == saveVersion[1]
        svMinor == saveVersion[2]
        evMajor == engineVersion[1]
        evMinor == engineVersion[2]
    IN  IF svMajor > evMajor THEN "newerSave"
        ELSE IF svMajor < evMajor THEN "outdatedSave"
        ELSE IF svMinor > evMinor THEN "newerSave"
        ELSE IF svMinor < evMinor THEN "outdatedSave"
        ELSE "compatible"

\* isSaveCompatibleWithEngine(saveVersion, engineVersion, compatibilityMode)
isSaveCompatibleWithEngine(saveVersion, engineVersion, compatibilityMode) ==
    LET svMajor == saveVersion[1]
        svMinor == saveVersion[2]
        evMajor == engineVersion[1]
        evMinor == engineVersion[2]
    IN  IF svMajor > evMajor THEN "newerSave"
        ELSE IF svMajor < evMajor THEN "outdatedSave"
        ELSE IF compatibilityMode = "strict" /\ svMinor > evMinor
        THEN "newerSave"
        ELSE IF compatibilityMode = "strict" /\ svMinor < evMinor
        THEN "outdatedSave"
        ELSE IF compatibilityMode = "liberal" /\ svMinor > evMinor
        THEN "newerSave"
        ELSE "compatible"

----------------------------------------------------------------------------
(* The history cursor and the operations of the engine *)

Ok(e) == [e |-> e, threw |-> FALSE]
Threw(e) == [e |-> e, threw |-> TRUE]

\* #setIndex(val): the range check, then the read of the snapshot at the old
\* index (which throws when the old index holds no snapshot), then the
\* assignment
setIndex(e, val) ==
    IF val < 0 \/ val >= snapshotCount(e) THEN Threw(e)
    ELSE IF ~HasSnapshotAtIndex(e, e.index) THEN Threw(e)
    ELSE Ok([e EXCEPT !.index = val])

\* the assignment `this.#stateSnapshots[i] = snapshot` of a JavaScript array:
\* it replaces the element at i, appends when i is the length, and sets a
\* property that is no element of the array when i is negative.  Such a
\* property is read by nothing but the caller that has just set it: every
\* later read is at the cursor, the cursor is below i, and each operation
\* that moves the cursor either first reads the snapshot at the old cursor
\* (and throws) or replaces the array.
AssignSnapshot(snaps, i, snapshot) ==
    IF i < 0 THEN snaps
    ELSE IF i < Len(snaps) THEN [snaps EXCEPT ![i + 1] = snapshot]
    ELSE Append(snaps, snapshot)

\* #addNewSnapshot(): the capacity check and merge, then the assignment of
\* an empty snapshot right after the cursor
addNewSnapshot(e) ==
    LET merged == IF snapshotCount(e) >= config.maxStateCount
                  THEN mergeSnapshots(e, 0, config.stateMergeCount).e
                  ELSE e
        indexForNewSnapshot == merged.index + 1
    IN  [merged EXCEPT !.stateSnapshots =
            AssignSnapshot(@, indexForNewSnapshot, EmptySnapshot)]

\* navigateTo(passageId) after the id was found valid.  newSnapshot is the
\* object at index + 1; the writes of __id and __seed go to it (to no element
\* of the array when index + 1 is negative); the last statement is
\* #setIndex(index + 1).
navigateToValid(e, id) ==
    LET added == addNewSnapshot(e)
        at == added.index + 1
        withId ==
            IF varsWithMetadata(added)["__id"] # id /\ at >= 0
            THEN [added EXCEPT !.stateSnapshots[at + 1]["__id"] = id]
            ELSE added
        withSeed ==
            IF config.regenSeed = "passage" /\ at >= 0
            THEN [withId EXCEPT !.stateSnapshots[at + 1]["__seed"] =
                      PrngNext(currentStatePrngSeed(withId))]
            ELSE withId
    IN  setIndex(withSeed, withSeed.index + 1)

\* a navigateTo that allocates the snapshot before it validates the id
navigateToValidatingLate(e, id) ==
    IF ~(id \in Passages) THEN Threw(addNewSnapshot(e))
    ELSE navigateToValid(e, id)

\* navigateTo(passageId): throws, before anything else, when the id was not
\* added to the engine
navigateTo(e, id) ==
    IF ~(id \in Passages) THEN Threw(e)
    ELSE navigateToValid(e, id)

\* forward(step)
forward(e, step) ==
    LET newIndex == e.index + step
    IN  IF newIndex >= snapshotCount(e)
        THEN setIndex(e, lastSnapshotIndex(e))
        ELSE setIndex(e, newIndex)

\* backward(step)
backward(e, step) ==
    LET newIndex == e.index - step
    IN  IF newIndex < 0 THEN setIndex(e, 0) ELSE setIndex(e, newIndex)

\* a rewrite that replaces the initial state and keeps the snapshots
rewriteStateKeepingSnapshots(e, stateToReplaceTheCurrentOne) ==
    [e EXCEPT !.initialState = stateToReplaceTheCurrentOne]

\* #rewriteState(state): the state becomes the initial state and every
\* snapshot becomes empty
rewriteState(e, stateToReplaceTheCurrentOne) ==
    [e EXCEPT !.initialState = stateToReplaceTheCurrentOne,
              !.stateSnapshots = [i \in 1 .. Len(@) |-> EmptySnapshot]]

\* The producers setVars is called with:
\*   "read"    reads variables[key], as the first step of an in-place change
\*             of a nested value (the proxy's get trap);
\*   "write"   assigns variables[key] = val;
\*   "replace" returns the object obj (Undef: a key the object does not have).
\* A producer that touches several keys has the effect of several calls
\* that touch one key each.
Producers ==
    [kind : {"read"}, key : UserKeys, val : {Undef}, obj : {EmptySnapshot}]
    \cup [kind : {"write"}, key : UserKeys, val : UserVals,
          obj : {EmptySnapshot}]
    \cup [kind : {"replace"}, key : {"gold"}, val : {Undef},
          obj : {[k \in Keys |-> IF k \in UserKeys THEN f[k] ELSE Undef] :
                    f \in [UserKeys -> UserVals \cup {Undef}]}]

\* setVars(producer).  The first statement reads the snapshot at the cursor
\* and throws when there is none.
setVars(e, producer) ==
    IF ~HasSnapshotAtIndex(e, e.index) THEN Threw(e)
    ELSE
    LET snapshot == getSnapshotAtIndex(e, e.index)
        key == producer.key
    IN  CASE producer.kind = "read" ->
                \* the get trap copies the value of the previous state in
                Ok(IF snapshot[key] = Undef
                   THEN [e EXCEPT !.stateSnapshots[e.index + 1][key] =
                            getStateAtIndex(e, e.index - 1)[key]]
                   ELSE e)
          [] producer.kind = "write" ->
                Ok([e EXCEPT !.stateSnapshots[e.index + 1][key] =
                        producer.val])
          [] producer.kind = "replace" ->
                Ok(rewriteState(e,
                     [k \in Keys |->
                        IF k = "__id" THEN passageId(e)
                        ELSE IF k = "__seed" THEN currentStatePrngSeed(e)
                        ELSE producer.obj[k]]))

\* a random that stores the advanced seed whatever the policy is
randomStoringAlways(e) ==
    IF ~HasSnapshotAtIndex(e, e.index) THEN Threw(e)
    ELSE Ok([e EXCEPT !.stateSnapshots[e.index + 1]["__seed"] =
                PrngSeedAfterFloat(currentStatePrngSeed(e))])

\* get random: with regenSeed "eachCall" the advanced seed is stored in the
\* snapshot at the cursor, which throws when there is none
random(e) ==
    IF config.regenSeed = "eachCall"
    THEN IF ~HasSnapshotAtIndex(e, e.index) THEN Threw(e)
         ELSE Ok([e EXCEPT !.stateSnapshots[e.index + 1]["__seed"] =
                     PrngSeedAfterFloat(currentStatePrngSeed(e))])
    ELSE Ok(e)

----------------------------------------------------------------------------
(* The same operations with the cache adapter #stateCache.  The engine     *)
(* record e has the additional field stateCache, a set of entries          *)
(* [index, state]; every `this.#stateCache?.` call does nothing when no    *)
(* adapter was configured (config.cache is FALSE).  Every read of the      *)
(* state goes through #getStateAtIndex, which stores what it computes.     *)

CachedEngine(init, snaps, idx, cache) ==
    [initialState |-> init, stateSnapshots |-> snaps, index |-> idx,
     stateCache |-> cache]

\* cache.get(i) finds an entry
CacheHas(cache, i) == \E entry \in cache : entry.index = i

\* cache.get(i)
CacheGet(cache, i) == (CHOOSE entry \in cache : entry.index = i).state

\* cache.set(i, state)
CacheSet(cache, i, state) ==
    IF config.cache
    THEN {entry \in cache : entry.index # i}
             \cup {[index |-> i, state |-> state]}
    ELSE cache

\* cache.delete(i)
CacheDelete(cache, i) == {entry \in cache : entry.index # i}

\* cache.clear()
CacheClear(cache) == {}

\* #getStateAtIndex(i): the cached state when there is one, else the fold,
\* which is stored.  Returns the state and the engine after the call.
getStateAtIndexCached(e, i) ==
    LET effectiveIndex == Min(Max(0, i), snapshotCount(e) - 1)
    IN  IF config.cache /\ CacheHas(e.stateCache, effectiveIndex)
        THEN [state |-> CacheGet(e.stateCache, effectiveIndex), e |-> e]
        ELSE LET state == FoldSnapshots(e.initialState, e.stateSnapshots, 0,
                                        effectiveIndex)
             IN  [state |-> state,
                  e |-> [e EXCEPT !.stateCache =
                            CacheSet(@, effectiveIndex, state)]]

\* get #varsWithMetadata (also behind vars, passageId, passage,
\* #currentStatePrngSeed and #currentStatePrng)
varsWithMetadataCached(e) == getStateAtIndexCached(e, e.index)

\* #setIndex(val): `this.passage` is read before the snapshot at the old
\* index, and again after the assignment, for the :passageChange event
setIndexCached(e, val) ==
    IF val < 0 \/ val >= snapshotCount(e) THEN Threw(e)
    ELSE LET old == varsWithMetadataCached(e).e
         IN  IF ~HasSnapshotAtIndex(old, old.index) THEN Threw(old)
             ELSE Ok(varsWithMetadataCached([old EXCEPT !.index = val]).e)

\* #mergeSnapshots(lowerIndex, upperIndex): the cache is cleared at the end
mergeSnapshotsCached(e, lowerIndex, upperIndexArg) ==
    LET merged == mergeSnapshots(e, lowerIndex, upperIndexArg)
    IN  IF lastSnapshotIndex(e) < 1 \/ upperIndexArg < lowerIndex
           \/ merged.threw
        THEN [e |-> e, threw |-> merged.threw]
        ELSE Ok([e EXCEPT !.stateSnapshots = merged.e.stateSnapshots,
                          !.index = merged.e.index,
                          !.stateCache = CacheClear(@)])

\* #addNewSnapshot()
addNewSnapshotCached(e) ==
    LET merged == IF snapshotCount(e) >= config.maxStateCount
                  THEN mergeSnapshotsCached(e, 0, config.stateMergeCount).e
                  ELSE e
        indexForNewSnapshot == merged.index + 1
    IN  [merged EXCEPT !.stateSnapshots =
            AssignSnapshot(@, indexForNewSnapshot, EmptySnapshot)]

\* navigateTo(passageId) after the id was found valid, up to the call of
\* #setIndex: the new snapshot with its id and its seed
navigateToWrites(e, id) ==
    LET added == addNewSnapshotCached(e)
        at == added.index + 1
        readId == varsWithMetadataCached(added)
        withId ==
            IF readId.state["__id"] # id /\ at >= 0
            THEN [readId.e EXCEPT !.stateSnapshots[at + 1]["__id"] = id]
            ELSE readId.e
        readSeed == varsWithMetadataCached(withId)
        withSeed ==
            IF config.regenSeed = "passage"
            THEN IF at >= 0
                 THEN [readSeed.e EXCEPT !.stateSnapshots[at + 1]["__seed"] =
                          PrngNext(readSeed.state["__seed"])]
                 ELSE readSeed.e
            ELSE withId
    IN  withSeed

\* navigateTo(passageId) after the id was found valid
navigateToValidCached(e, id) ==
    LET written == navigateToWrites(e, id)
    IN  setIndexCached(written, written.index + 1)

\* navigateTo(passageId)
navigateToCached(e, id) ==
    IF ~(id \in Passages) THEN Threw(e)
    ELSE navigateToValidCached(e, id)

\* forward(step)
forwardCached(e, step) ==
    LET newIndex == e.index + step
    IN  IF newIndex >= snapshotCount(e)
        THEN setIndexCached(e, lastSnapshotIndex(e))
        ELSE setIndexCached(e, newIndex)

\* backward(step)
backwardCached(e, step) ==
    LET newIndex == e.index - step
    IN  IF newIndex < 0 THEN setIndexCached(e, 0)
        ELSE setIndexCached(e, newIndex)

\* #rewriteState(state): the cache is cleared at the end
rewriteStateCached(e, stateToReplaceTheCurrentOne) ==
    [rewriteState(e, stateToReplaceTheCurrentOne) EXCEPT
        !.stateCache = CacheClear(@)]

\* the last statement of setVars: the cache entry of the cursor is deleted
setVarsDone(e) == Ok([e EXCEPT !.stateCache = CacheDelete(@, e.index)])

\* setVars(producer): the state at the cursor is read before the producer
\* runs (currentStateBeforeChange)
setVarsCached(e, producer) ==
    IF ~HasSnapshotAtIndex(e, e.index) THEN Threw(e)
    ELSE
    LET before == getStateAtIndexCached(e, e.index).e
        snapshot == getSnapshotAtIndex(before, before.index)
        key == producer.key
    IN  CASE producer.kind = "read" ->
                IF snapshot[key] = Undef
                THEN LET previous ==
                             getStateAtIndexCached(before, before.index - 1)
                     IN  setVarsDone(
                             [previous.e EXCEPT
                                 !.stateSnapshots[before.index + 1][key] =
                                     previous.state[key]])
                ELSE setVarsDone(before)
          [] producer.kind = "write" ->
                setVarsDone(
                    [before EXCEPT
                        !.stateSnapshots[before.index + 1][key] =
                            producer.val])
          [] producer.kind = "replace" ->
                LET readId == varsWithMetadataCached(before)
                    readSeed == varsWithMetadataCached(readId.e)
                IN  setVarsDone(
                        rewriteStateCached(
                            readSeed.e,
                            [k \in Keys |->
                                IF k = "__id" THEN readId.state["__id"]
                                ELSE IF k = "__seed"
                                THEN readSeed.state["__seed"]
                                ELSE producer.obj[k]]))

\* get random: the number returned, and the engine after the call
randomCached(e) ==
    LET read == varsWithMetadataCached(e)
        seed == read.state["__seed"]
    IN  [value |-> PrngFloat(seed),
         res |-> IF config.regenSeed = "eachCall"
                 THEN IF ~HasSnapshotAtIndex(read.e, read.e.index)
                      THEN Threw(read.e)
                      ELSE Ok([read.e EXCEPT
                                  !.stateSnapshots[read.e.index + 1]["__seed"]
                                      = PrngSeedAfterFloat(seed)])
                 ELSE Ok(read.e)]

----------------------------------------------------------------------------
(* Saves: serialization, the save slots of the persistence adapter, the    *)
(* migrations and the load.                                                *)

\* superjson's stringify of an object: the JSON holds null for a value that
\* is undefined, and the meta data lists the paths of those values.  (A key
\* the object does not have is left out of both; it reads as undefined
\* before and after, like a key listed in the meta data.)
SerializeObject(obj) ==
    [json |-> [k \in Keys |-> IF obj[k] = Undef THEN Null ELSE obj[k]],
     undefinedKeys |-> {k \in Keys : obj[k] = Undef}]

\* a parse that reads the JSON and ignores the meta data
DeserializeJsonOnly(serialized) == serialized.json

\* superjson's parse of an object: the JSON with the values the meta data
\* lists set back to undefined
DeserializeObject(serialized) ==
    [k \in Keys |->
        IF k \in serialized.undefinedKeys THEN Undef ELSE serialized.json[k]]

\* the save data saveToSaveSlot builds from the engine; savedOn is the time
\* new Date() reads
SaveDataOf(e, lastPassageId) ==
    [intialState |-> e.initialState, lastPassageId |-> lastPassageId,
     savedOn |-> clock,
     saveVersion |-> config.saveVersion, snapshots |-> e.stateSnapshots,
     storyIndex |-> e.index]

\* stringify(saveData): the version is written by its registered class
\* serializer, as the string __toJSON() returns
Stringify(saveData) ==
    [intialState |-> SerializeObject(saveData.intialState),
     lastPassageId |-> saveData.lastPassageId,
     savedOn |-> saveData.savedOn,
     saveVersion |-> VersionToString(saveData.saveVersion),
     snapshots |-> [i \in 1 .. Len(saveData.snapshots) |->
                       SerializeObject(saveData.snapshots[i])],
     storyIndex |-> saveData.storyIndex]

\* parse(serializedSaveData)
Parse(serialized) ==
    [intialState |-> DeserializeObject(serialized.intialState),
     lastPassageId |-> serialized.lastPassageId,
     savedOn |-> serialized.savedOn,
     saveVersion |-> VersionFromJSON(serialized.saveVersion),
     snapshots |-> [i \in 1 .. Len(serialized.snapshots) |->
                       DeserializeObject(serialized.snapshots[i])],
     storyIndex |-> serialized.storyIndex]

\* the name the engine is constructed with
name == "Story"

MINIMUM_SAVE_SLOT_INDEX == 0

\* a validation that looks at the lower end of the range only
assertSaveSlotIsNotNegative(saveSlot) ==
    ~(saveSlot < MINIMUM_SAVE_SLOT_INDEX)

\* #assertSaveSlotIsValid(saveSlot): TRUE when it returns, FALSE when it
\* throws
assertSaveSlotIsValid(saveSlot) ==
    ~(saveSlot < MINIMUM_SAVE_SLOT_INDEX \/ saveSlot >= config.saveSlots)

\* the keys of an engine of the given name: `sugarbox-${name}-autosave` for
\* no slot (and for slot 0, which is falsy), else `sugarbox-${name}-slot${n}`
SaveKeyOf(engineName, saveSlot) ==
    IF saveSlot = 0 THEN "sugarbox-" \o engineName \o "-autosave"
    ELSE "sugarbox-" \o engineName \o "-slot" \o ToString(saveSlot)

\* a key function that never throws
getSaveKeyNeverThrows(saveSlot) == FALSE

\* #getSaveKeyFromSaveSlotNumber(saveSlot) throws for a slot that is not
\* valid, the autosave slot apart
getSaveKeyThrows(saveSlot) ==
    saveSlot # 0 /\ ~assertSaveSlotIsValid(saveSlot)

\* #getSaveKeyFromSaveSlotNumber(saveSlot) when it returns
getSaveKeyFromSaveSlotNumber(saveSlot) == SaveKeyOf(name, saveSlot)

\* #achivementsStorageKey and #settingsStorageKey
achivementsStorageKey == "sugarbox-" \o name \o "-achievements"

settingsStorageKey == "sugarbox-" \o name \o "-settings"

\* persistence.get(key) finds a value
PersistenceHas(store, key) == \E entry \in store : entry.key = key

\* persistence.set(key, value).  The entry also remembers the engine the
\* value was made from (a history variable, read by no operation).
PersistenceSet(store, key, value, madeFrom) ==
    {entry \in store : entry.key # key}
        \cup {[key |-> key, value |-> value, madeFrom |-> madeFrom]}

\* the callback of saveToSaveSlot(saveSlot) up to its await, the call of
\* persistence.set: the key is made first (it throws for a slot that is
\* not valid), then passageId is read through the cache.  write is what
\* persistence.set is given (nothing when the callback threw), with the
\* engine the value was made from.
saveToSaveSlotCached(e, saveSlot) ==
    IF getSaveKeyThrows(saveSlot)
    THEN [e |-> e, threw |-> TRUE, write |-> {}]
    ELSE
    LET read == varsWithMetadataCached(e)
        saveData == SaveDataOf(read.e, read.state["__id"])
    IN  [e |-> read.e, threw |-> FALSE,
         write |->
             {[key |-> getSaveKeyFromSaveSlotNumber(saveSlot),
               value |-> Stringify(saveData),
               madeFrom |-> Engine(e.initialState, e.stateSnapshots,
                                   e.index)]}]

\* the migration functions given to the engine are known by their names:
\*   "addOne"  state => ({ ...state, gold: (state.gold + 1) % MigrateMod })
\*   "double"  state => ({ ...state, gold: (state.gold * 2) % MigrateMod })
\*   "throws"  throws an error
\*   "goldOnly" state => ({ gold: state.gold }), an object without the
\*             metadata fields
Migraters == {"addOne", "double", "throws", "goldOnly"}

\* the number a value is in arithmetic (null is 0)
ToNumber(value) ==
    IF value = Null THEN 0
    ELSE CHOOSE n \in 0 .. Max(MaxVal, MigrateMod) : ToString(n) = value

\* migrater(state) for a function that does not throw
Migrate(migrater, state) ==
    IF migrater = "goldOnly"
    THEN [k \in Keys |-> IF k = "gold" THEN state[k] ELSE Undef]
    ELSE [state EXCEPT !["gold"] =
             ToString((IF migrater = "addOne" THEN ToNumber(@) + 1
                       ELSE ToNumber(@) * 2) % MigrateMod)]

\* #saveMigrationMap.has(key)
MigrationMapHas(map, key) == \E entry \in map : entry.from = key

\* #saveMigrationMap.get(key)
MigrationMapGet(map, key) == CHOOSE entry \in map : entry.from = key

\* a registration that replaces the step already registered for a version
RECURSIVE registerMigratorsOverwriting(_, _)
registerMigratorsOverwriting(map, migrators) ==
    IF migrators = << >> THEN [map |-> map, threw |-> FALSE]
    ELSE LET semanticVersionString == VersionToString(Head(migrators).from)
         IN  registerMigratorsOverwriting(
                 {entry \in map : entry.from # semanticVersionString}
                     \cup {[from |-> semanticVersionString,
                            to |-> Head(migrators).data.to,
                            migrater |-> Head(migrators).data.migrater]},
                 Tail(migrators))

\* registerMigrators(...migrators): the steps are set one by one, and the
\* first one whose version already has a step throws
RECURSIVE registerMigrators(_, _)
registerMigrators(map, migrators) ==
    IF migrators = << >> THEN [map |-> map, threw |-> FALSE]
    ELSE LET semanticVersionString == VersionToString(Head(migrators).from)
         IN  IF MigrationMapHas(map, semanticVersionString)
             THEN [map |-> map, threw |-> TRUE]
             ELSE registerMigrators(
                      map \cup {[from |-> semanticVersionString,
                                 to |-> Head(migrators).data.to,
                                 migrater |-> Head(migrators).data.migrater]},
                      Tail(migrators))

\* the while loop of loadSaveFromData's outdatedSave branch, from the
\* version reached so far: migrated says whether a migration function has
\* run, migratedState is what the last one returned, called lists the
\* functions called.  The state given to the first function is read
\* through #varsWithMetadata.
RECURSIVE MigrationLoop(_, _, _, _, _)
MigrationLoop(e, saveToMigrateVersionString, migrated, migratedState, called) ==
    IF saveToMigrateVersionString = VersionToString(config.saveVersion)
    THEN [e |-> e, threw |-> ~migrated, migratedState |-> migratedState,
          called |-> called]
    ELSE IF ~MigrationMapHas(saveMigrationMap, saveToMigrateVersionString)
    THEN [e |-> e, threw |-> TRUE, migratedState |-> migratedState,
          called |-> called]
    ELSE LET migratorData ==
                 MigrationMapGet(saveMigrationMap, saveToMigrateVersionString)
             read == varsWithMetadataCached(e)
             after == IF migrated THEN e ELSE read.e
             currentStateToMigrate ==
                 IF migrated THEN migratedState ELSE read.state
             nowCalled == Append(called, migratorData.migrater)
         IN  IF migratorData.migrater = "throws"
             THEN [e |-> after, threw |-> TRUE,
                   migratedState |-> migratedState, called |-> nowCalled]
             ELSE MigrationLoop(
                      after,
                      VersionToString(VersionFromJSON(migratorData.to)),
                      TRUE,
                      Migrate(migratorData.migrater, currentStateToMigrate),
                      nowCalled)

\* the save's state put in place of the engine's
InstallSave(e, save) ==
    [e EXCEPT !.initialState = save.intialState,
              !.stateSnapshots = save.snapshots,
              !.index = save.storyIndex]

\* the outdatedSave branch of loadSaveFromData: the save's state is put in
\* place, the migration functions run, and the catch block puts the three
\* fields back when the chain fails
loadOutdatedSave(e, save) ==
    LET loop == MigrationLoop(InstallSave(e, save),
                              VersionToString(save.saveVersion),
                              FALSE, EmptySnapshot, << >>)
    IN  IF loop.threw
        THEN [e |-> [loop.e EXCEPT !.initialState = e.initialState,
                                   !.stateSnapshots = e.stateSnapshots,
                                   !.index = e.index],
              threw |-> TRUE, called |-> loop.called]
        ELSE [e |-> [rewriteStateCached(loop.e, loop.migratedState)
                        EXCEPT !.stateCache = CacheClear(@)],
              threw |-> FALSE, called |-> loop.called]

\* a load that tries to migrate every save that is not compatible
loadSaveFromDataMigratingNewer(e, save) ==
    IF isSaveCompatibleWithEngine(save.saveVersion, config.saveVersion,
                                  config.saveCompatibilityMode)
           = "compatible"
    THEN [e |-> [InstallSave(e, save) EXCEPT !.stateCache = CacheClear(@)],
          threw |-> FALSE, called |-> << >>]
    ELSE loadOutdatedSave(e, save)

\* loadSaveFromData(save): returns the engine after the call, whether it
\* threw, and the migration functions it called
loadSaveFromData(e, save) ==
    LET saveCompatibility ==
            isSaveCompatibleWithEngine(save.saveVersion, config.saveVersion,
                                       config.saveCompatibilityMode)
    IN  CASE saveCompatibility = "compatible" ->
                [e |-> [InstallSave(e, save) EXCEPT
                           !.stateCache = CacheClear(@)],
                 threw |-> FALSE, called |-> << >>]
          [] saveCompatibility = "outdatedSave" -> loadOutdatedSave(e, save)
          [] saveCompatibility = "newerSave" ->
                [e |-> e, threw |-> TRUE, called |-> << >>]

\* what persistence.get(key) answers with: the entries found under the
\* key, none or one
PersistenceFound(store, key) == {entry \in store : entry.key = key}

\* the callback of loadFromSaveSlot(saveSlot) after its await: got is what
\* persistence.get answered with.  It throws when the slot held nothing.
loadFromSaveSlot(e, got) ==
    IF got = {} THEN [e |-> e, threw |-> TRUE, called |-> << >>]
    ELSE loadSaveFromData(e, Parse((CHOOSE entry \in got : TRUE).value))

\* the names of the engines that share the persistence adapter
EngineNames == {name, "Other"}

\* what a key of the adapter is made of
KeyParts ==
    [engineName : EngineNames, kind : {"slot"}, slot : 1 .. 3]
    \cup [engineName : EngineNames,
          kind : {"autosave", "achievements", "settings"}, slot : {0}]

KeyOf(parts) ==
    CASE parts.kind = "slot" -> SaveKeyOf(parts.engineName, parts.slot)
      [] parts.kind = "autosave" -> SaveKeyOf(parts.engineName, 0)
      [] parts.kind = "achievements" ->
            "sugarbox-" \o parts.engineName \o "-achievements"
      [] parts.kind = "settings" ->
            "sugarbox-" \o parts.engineName \o "-settings"

PartsOf(key) == CHOOSE parts \in KeyParts : KeyOf(parts) = key

\* key.includes("slot") || key.includes("autosave"), for the keys above
\* (neither engine name holds one of the two words)
IsKeyOfSave(key) == PartsOf(key).kind \in {"slot", "autosave"}

\* the persistence adapter has keys()
HasKeys == "persistenceKeys" \in DOMAIN config /\ config.persistenceKeys

\* the orders in which an adapter can list the keys it holds
Orders(keys) ==
    {order \in [1 .. Cardinality(keys) -> keys] :
        \A i, j \in 1 .. Cardinality(keys) :
            i # j => order[i] # order[j]}

\* the keys the fallback of #getKeysOfPresentSaves() calls persistence.get
\* with, in order: the autosave key, then the key of every slot from 0 on
\* (the key of slot 0 is the autosave key again)
FallbackKeys ==
    <<getSaveKeyFromSaveSlotNumber(0)>>
        \o [i \in 1 .. config.saveSlots |->
               getSaveKeyFromSaveSlotNumber(i - 1)]

\* #getKeysOfPresentSaves() iterated to its end on an adapter that holds
\* `store` throughout: the keys yielded, in order.  `listed` is what
\* `await persistence.keys?.()` gave: nothing when the adapter has no
\* keys(), else the sequence of its keys, of which those that hold "slot"
\* or "autosave" are yielded.  The fallback yields each key it asked for
\* under which persistence.get found something.
getKeysOfPresentSaves(store, listed) ==
    IF listed # {}
    THEN SelectSeq(CHOOSE keys \in listed : TRUE, IsKeyOfSave)
    ELSE SelectSeq(FallbackKeys, LAMBDA key : PersistenceHas(store, key))

\* an event: its name and its detail (the type and the error of an end
\* event, the passages of :passageChange, the states of :stateChange)
NoEvent ==
    [name |-> Undef, type |-> Null, error |-> FALSE, oldPassage |-> Undef,
     newPassage |-> Undef, oldState |-> EmptySnapshot,
     newState |-> EmptySnapshot]

\* #emitSaveOrLoadEventWhenAttemptingToSaveOrLoadInCallback(operation,
\* callback): the events emitted around a callback that threw or returned.
\* The start event has no detail; the end event has a type, and the error
\* caught when there was one.
emitSaveOrLoadEventWhenAttemptingToSaveOrLoadInCallback(operation, threw) ==
    <<[NoEvent EXCEPT !.name = IF operation = "save" THEN ":saveStart"
                               ELSE ":loadStart"],
      [NoEvent EXCEPT !.name = IF operation = "save" THEN ":saveEnd"
                               ELSE ":loadEnd",
                      !.type = IF threw THEN "error" ELSE "success",
                      !.error = threw]>>

\* the events #setIndex(val) emits, called on the engine e: none when it
\* throws, else :passageChange with the passages served before and after
\* the assignment, and :stateChange with the snapshot at the old index and
\* the snapshot at the new one
setIndexEvents(e, val) ==
    IF setIndexCached(e, val).threw THEN << >>
    ELSE LET old == varsWithMetadataCached(e)
             moved == [old.e EXCEPT !.index = val]
             new == varsWithMetadataCached(moved)
         IN  <<[NoEvent EXCEPT !.name = ":passageChange",
                               !.oldPassage = old.state["__id"],
                               !.newPassage = new.state["__id"]],
               [NoEvent EXCEPT !.name = ":stateChange",
                               !.oldState =
                                   getSnapshotAtIndex(old.e, old.e.index),
                               !.newState = getSnapshotAtIndex(moved, val)]>>

\* the events of navigateTo(passageId), forward(step) and backward(step)
navigateToEvents(e, id) ==
    IF ~(id \in Passages) THEN << >>
    ELSE LET written == navigateToWrites(e, id)
         IN  setIndexEvents(written, written.index + 1)

forwardEvents(e, step) ==
    LET newIndex == e.index + step
    IN  IF newIndex >= snapshotCount(e)
        THEN setIndexEvents(e, lastSnapshotIndex(e))
        ELSE setIndexEvents(e, newIndex)

backwardEvents(e, step) ==
    LET newIndex == e.index - step
    IN  IF newIndex < 0 THEN setIndexEvents(e, 0)
        ELSE setIndexEvents(e, newIndex)

\* the event setVars(producer) emits: none when it throws, else
\* :stateChange, whose newState and oldState are both the snapshot at the
\* cursor after the change (`oldState: makeImmutable(newState)`)
setVarsEvents(e, producer) ==
    LET res == setVarsCached(e, producer)
    IN  IF res.threw THEN << >>
        ELSE LET newState == getSnapshotAtIndex(res.e, res.e.index)
             IN  <<[NoEvent EXCEPT !.name = ":stateChange",
                                   !.oldState = newState,
                                   !.newState = newState]>>

\* #emitCustomEvent(name, data) saves to the autosave slot after a
\* :passageChange when autoSave is "passage", and after a :stateChange when
\* autoSave is "state"
AutoSaves(event) ==
    \/ event.name = ":passageChange" /\ config.autoSave = "passage"
    \/ event.name = ":stateChange" /\ config.autoSave = "state"

\* the events of a handler with those of its autosave: :saveStart is
\* emitted inside #emitCustomEvent, :saveEnd after the handler has returned
\* (saveToSaveSlot is called and not awaited)
RECURSIVE WithAutoSaveStarts(_)
WithAutoSaveStarts(events) ==
    IF events = << >> THEN << >>
    ELSE <<Head(events)>>
         \o (IF AutoSaves(Head(events))
             THEN <<[NoEvent EXCEPT !.name = ":saveStart"]>>
             ELSE << >>)
         \o WithAutoSaveStarts(Tail(events))

emitCustomEvents(events) == WithAutoSaveStarts(events)

\* a call of an asynchronous handler that has not returned: the handler,
\* its save slot, and what it waits for.  Phase "set": persistence.set has
\* been called with `write`; "written": the adapter has written and its
\* promise is pending.  Phase "keys": persistence.keys() has been called;
\* "listed": the adapter has listed the keys in `asks` and its promise is
\* pending.  Phase "get": persistence.get has been called with the first
\* key of `asks` (the keys still to ask for, in order), as the presence
\* check of #getKeysOfPresentSaves or, when `reading`, to read the save;
\* "got": the adapter has read `found` and its promise is pending.  Phase
\* "end": the callback has settled and the wrapper's await is pending.
\* Then whether the callback threw, the entry of the adapter a load will be
\* given, the saves getSaves has yielded (in order), and the export
\* saveToExport built.  What the call no longer reads is dropped.
NoFrame ==
    [op |-> Undef, slot |-> 0, phase |-> "end", threw |-> FALSE,
     write |-> {}, asks |-> << >>, reading |-> FALSE, found |-> {},
     got |-> {}, saves |-> << >>, data |-> {}]

\* the calls of saveToSaveSlot() made in #emitCustomEvent by a handler
\* that left the engine e: the save data is built and persistence.set is
\* called when the event is emitted, and no statement between the emission
\* and the return changes the initial state, the snapshots or the index
autoSaved(e, events) ==
    IF \E i \in 1 .. Len(events) : AutoSaves(events[i])
    THEN <<[NoFrame EXCEPT !.op = "saveToSaveSlot", !.phase = "set",
                           !.write = saveToSaveSlotCached(e, 0).write]>>
    ELSE << >>

\* the export data saveToExport builds: the save data, the settings and
\* the achievements, stringified
saveToExportCached(e, engineSettings, engineAchievements) ==
    LET read == varsWithMetadataCached(e)
    IN  [e |-> read.e, threw |-> FALSE,
         data |-> [saveData |->
                       Stringify(SaveDataOf(read.e, read.state["__id"])),
                   settings |-> engineSettings,
                   achievements |-> engineAchievements]]

\* a string that is not an export: parsing it gives no export data
NotAnExport == [text |-> "not an export"]

CanParseExport(data) == "saveData" \in DOMAIN data

\* loadFromExport(data): parse throws on a string that is not an export;
\* else the five fields are replaced (the save's version is not looked at
\* and the cache is left as it is)
loadFromExport(e, engineSettings, engineAchievements, data) ==
    IF ~CanParseExport(data)
    THEN [e |-> e, threw |-> TRUE, settings |-> engineSettings,
          achievements |-> engineAchievements]
    ELSE [e |-> InstallSave(e, Parse(data.saveData)), threw |-> FALSE,
          settings |-> data.settings, achievements |-> data.achievements]

----------------------------------------------------------------------------
(* The engine as a state machine *)

Eng == Engine(initialState, stateSnapshots, index)

\* the record of a call: the operation, the passage id given to navigateTo,
\* the step given to forward / backward (the index given to
\* #getStateAtIndex), the kind of producer given to setVars, the range given
\* to #mergeSnapshots, the state #getStateAtIndex returned, the cursor index
\* and the number of snapshots when the call began, the save version given
\* to isSaveCompatibleWithEngine and its verdict, the migration functions a
\* load called (in order), the save slot given to a save or a load, the
\* number random returned, the events emitted during the step (in order),
\* the saves getSaves yielded, the entry of the persistence adapter a load
\* was given, and whether the call threw (for an asynchronous handler:
\* whether its promise was rejected).  A synchronous handler is one step
\* (part "whole"); an asynchronous one is the step of its call, up to its
\* first await (part "called": threw tells whether its callback has thrown already),
\* the steps in which the persistence adapter does what it was called for
\* (part "written", part "read"), the steps in which a promise of the
\* adapter resolves and the callback goes on (part "asked" when it calls the
\* adapter again, part "resumed" when it settles), and the step in which
\* the wrapper is resumed, emits the end event and the call returns (part
\* "returned").
NoCall ==
    [op |-> "init", part |-> "whole", id |-> Undef, step |-> 0,
     kind |-> Undef, lower |-> 0,
     upper |-> 0, result |-> EmptySnapshot, from |-> 0, count |-> 1,
     version |-> <<0, 0, 0>>, verdict |-> Undef, migraters |-> << >>,
     slot |-> 0, value |-> Undef, events |-> << >>, saves |-> << >>,
     loaded |-> {}, threw |-> FALSE]

\* the engine after a call with outcome res, and the record of the call
Becomes(res, call) ==
    /\ initialState' = res.e.initialState
    /\ stateSnapshots' = res.e.stateSnapshots
    /\ index' = res.e.index
    /\ last' = [call EXCEPT !.from = index,
                             !.count = Len(stateSnapshots),
                             !.threw = res.threw]

\* defaultConfig: maxStateCount 100, stateMergeCount 1, regenSeed "passage",
\* saveCompatibilityMode "strict", saveVersion 0.0.1, loadOnStart true, and
\* no cache adapter
defaultConfig ==
    [maxStateCount |-> 100, stateMergeCount |-> 1, regenSeed |-> "passage",
     saveCompatibilityMode |-> "strict", saveSlots |-> 20,
     saveVersion |-> <<0, 0, 1>>, autoSave |-> "false", cache |-> FALSE,
     loadOnStart |-> TRUE]

\* the constructor's `{ ...defaultConfig, ...config }`
WithDefaults(cfg) ==
    [k \in DOMAIN defaultConfig \cup DOMAIN cfg |->
        IF k \in DOMAIN cfg THEN cfg[k] ELSE defaultConfig[k]]

\* the configurations the engine is constructed with: small capacities, so
\* that the history fills up and merges
Configs ==
    {[maxStateCount |-> 3, stateMergeCount |-> 1, regenSeed |-> "false"],
     [maxStateCount |-> 3, stateMergeCount |-> 2, regenSeed |-> "false"],
     [maxStateCount |-> 2, stateMergeCount |-> 1, regenSeed |-> "passage"],
     [maxStateCount |-> 1, stateMergeCount |-> 1, regenSeed |-> "false"]}

\* the achievements and the settings the engine is constructed with
InitialAchievements == [won |-> FALSE]
InitialSettings == [volume |-> "1"]

\* the variables the engine is constructed with
InitialVariables == {[k \in UserKeys |-> "1"]}

\* SugarboxEngine.init on a persistence adapter that holds nothing: the
\* constructor has run and nothing was loaded.  The initial state is the
\* variables with the start passage and the initial seed, the history is
\* one empty snapshot, the cursor is 0.
Constructed(variables, initialSeed, cfg) ==
    /\ initialState =
          [k \in Keys |->
              IF k = "__id" THEN StartPassage
              ELSE IF k = "__seed" THEN initialSeed
              ELSE variables[k]]
    /\ stateSnapshots = <<EmptySnapshot>>
    /\ index = 0
    /\ config = WithDefaults(cfg)
    /\ stateCache = {}
    /\ saveMigrationMap = {}
    /\ persistence = {}
    /\ achievements = InitialAchievements
    /\ settingsData = InitialSettings
    /\ exported = {}
    /\ pending = << >>
    /\ clock = 0
    /\ otherPending = {}
    /\ last = NoCall

Init ==
    \E variables \in InitialVariables, cfg \in Configs :
        Constructed(variables, "0", cfg)

NavigateToId(id) ==
    /\ Becomes(navigateTo(Eng, id),
               [NoCall EXCEPT !.op = "navigateTo", !.id = id])
    /\ UNCHANGED settings

NavigateTo == \E id \in PassageIds : NavigateToId(id)

ForwardBy(step) ==
    /\ Becomes(forward(Eng, step),
               [NoCall EXCEPT !.op = "forward", !.step = step])
    /\ UNCHANGED settings

Forward == \E step \in 0 .. MaxStep : ForwardBy(step)

BackwardBy(step) ==
    /\ Becomes(backward(Eng, step),
               [NoCall EXCEPT !.op = "backward", !.step = step])
    /\ UNCHANGED settings

Backward == \E step \in 0 .. MaxStep : BackwardBy(step)

SetVarsWith(producer) ==
    /\ Becomes(setVars(Eng, producer),
               [NoCall EXCEPT !.op = "setVars", !.kind = producer.kind])
    /\ UNCHANGED settings

SetVars == \E producer \in Producers : SetVarsWith(producer)

\* the number get random returns
randomValue(e) == PrngFloat(currentStatePrngSeed(e))

Random ==
    /\ Becomes(random(Eng),
               [NoCall EXCEPT !.op = "random",
                              !.value = IF random(Eng).threw THEN Undef
                                        ELSE randomValue(Eng)])
    /\ UNCHANGED settings

Next == NavigateTo \/ Forward \/ Backward \/ SetVars \/ Random

Spec == Init /\ [][Next]_vars

----------------------------------------------------------------------------
(* The engine with a capacity of four snapshots, in which the cursor can   *)
(* be rewound by two while the history is not full.  To keep the state     *)
(* space small the producers given to setVars only write the value "1".    *)

InitRoomy ==
    \E variables \in InitialVariables :
        Constructed(variables, "0",
                    [maxStateCount |-> 4, stateMergeCount |-> 1,
                     regenSeed |-> "false"])

SetVarsWriting ==
    \E producer \in {p \in Producers : p.kind = "write" /\ p.val = "1"} :
        SetVarsWith(producer)

NextRoomy == NavigateTo \/ Forward \/ Backward \/ SetVarsWriting

SpecRoomy == InitRoomy /\ [][NextRoomy]_vars

----------------------------------------------------------------------------
(* Steps of any sign: the engine navigates and moves its cursor forward    *)
(* and backward by zero, positive and negative numbers of steps.           *)

InitSteps ==
    \E variables \in InitialVariables :
        Constructed(variables, "0",
                    [maxStateCount |-> 3, stateMergeCount |-> 1,
                     regenSeed |-> "false"])

ForwardByAny == \E step \in -MaxStep .. MaxStep : ForwardBy(step)

BackwardByAny == \E step \in -MaxStep .. MaxStep : BackwardBy(step)

NextSteps == NavigateTo \/ ForwardByAny \/ BackwardByAny

SpecSteps == InitSteps /\ [][NextSteps]_vars

----------------------------------------------------------------------------
(* The fold and the merge on arbitrary histories: the initial state and    *)
(* the snapshots are drawn from bounded sets, the cursor is on the last    *)
(* snapshot (where a navigation leaves it), and the two functions are      *)
(* called through __testAPI (getStateAtIndex, mergeSnapshots).             *)

\* the snapshots drawn: any value, null or nothing for the user variable,
\* a passage id or nothing, no seed
SnapshotInputs ==
    {[k \in Keys |->
         IF k = "gold" THEN g ELSE IF k = "__id" THEN id ELSE Undef] :
        g \in UserVals \cup {Undef}, id \in {Undef, "Shop"}}

HistoryInputs ==
    UNION {[1 .. n -> SnapshotInputs] : n \in 1 .. MaxFoldLen}

InitFold ==
    \E variables \in [UserKeys -> UserVals], snaps \in HistoryInputs :
        \E idx \in {Len(snaps) - 1} :
            /\ initialState =
                  [k \in Keys |->
                      IF k = "__id" THEN StartPassage
                      ELSE IF k = "__seed" THEN "0"
                      ELSE variables[k]]
            /\ stateSnapshots = snaps
            /\ index = idx
            /\ config = defaultConfig
            /\ stateCache = {}
            /\ saveMigrationMap = {}
            /\ persistence = {}
            /\ achievements = InitialAchievements
            /\ settingsData = InitialSettings
            /\ exported = {}
            /\ pending = << >>
            /\ clock = 0
            /\ otherPending = {}
            /\ last = NoCall

\* __testAPI.getStateAtIndex(i)
GetStateAtIndexOf(i) ==
    /\ Becomes(Ok(Eng),
               [NoCall EXCEPT !.op = "getStateAtIndex", !.step = i,
                              !.result = getStateAtIndex(Eng, i)])
    /\ UNCHANGED settings

GetStateAtIndex == \E i \in -1 .. MaxFoldLen : GetStateAtIndexOf(i)

\* __testAPI.mergeSnapshots(lowerIndex, upperIndex), the lower index being
\* the index of a snapshot
MergeSnapshotsOf(lowerIndex, upperIndex) ==
    /\ Becomes(mergeSnapshots(Eng, lowerIndex, upperIndex),
               [NoCall EXCEPT !.op = "mergeSnapshots", !.lower = lowerIndex,
                              !.upper = upperIndex])
    /\ UNCHANGED settings

MergeSnapshots ==
    \E lowerIndex \in 0 .. lastSnapshotIndex(Eng) :
        \E upperIndex \in 0 .. MaxFoldLen :
            MergeSnapshotsOf(lowerIndex, upperIndex)

NextFold == GetStateAtIndex \/ MergeSnapshots

SpecFold == InitFold /\ [][NextFold]_vars

----------------------------------------------------------------------------
(* The merge with the cursor anywhere: the history is drawn as above, the  *)
(* cursor is on any snapshot (where backward leaves it), and               *)
(* #mergeSnapshots is called through __testAPI.                            *)

InitMerge ==
    \E snaps \in HistoryInputs :
        \E idx \in 0 .. Len(snaps) - 1 :
            /\ initialState =
                  [k \in Keys |->
                      IF k = "__id" THEN StartPassage
                      ELSE IF k = "__seed" THEN "0" ELSE "1"]
            /\ stateSnapshots = snaps
            /\ index = idx
            /\ config = defaultConfig
            /\ stateCache = {}
            /\ saveMigrationMap = {}
            /\ persistence = {}
            /\ achievements = InitialAchievements
            /\ settingsData = InitialSettings
            /\ exported = {}
            /\ pending = << >>
            /\ clock = 0
            /\ otherPending = {}
            /\ last = NoCall

SpecMerge == InitMerge /\ [][MergeSnapshots]_vars

----------------------------------------------------------------------------
(* The compatibility check on arbitrary versions: the engine is constructed *)
(* with any version and mode, and the check is called with any save version. *)

InitVersion ==
    \E variables \in InitialVariables, engineVersion \in VersionInputs,
       mode \in CompatibilityModes :
        Constructed(variables, "0",
                    [saveVersion |-> engineVersion,
                     saveCompatibilityMode |-> mode])

IsSaveCompatibleWithEngineOf(saveVersion) ==
    /\ Becomes(Ok(Eng),
               [NoCall EXCEPT
                   !.op = "isSaveCompatibleWithEngine",
                   !.version = saveVersion,
                   !.verdict =
                       isSaveCompatibleWithEngine(
                           saveVersion, config.saveVersion,
                           config.saveCompatibilityMode)])
    /\ UNCHANGED settings

IsSaveCompatibleWithEngine ==
    \E saveVersion \in VersionInputs :
        IsSaveCompatibleWithEngineOf(saveVersion)

NextVersion == IsSaveCompatibleWithEngine

SpecVersion == InitVersion /\ [][NextVersion]_vars

----------------------------------------------------------------------------
(* The engine with a cache adapter (or without one, when config.cache is   *)
(* FALSE) as a state machine: every handler threads #stateCache.           *)

CEng == CachedEngine(initialState, stateSnapshots, index, stateCache)

\* the engine and its cache after a call with outcome res
BecomesCached(res, call) ==
    /\ Becomes(res, call)
    /\ stateCache' = res.e.stateCache

\* what the `vars` getter returns now (the cache entry of the cursor when
\* there is one)
VarsServed == varsWithMetadataCached(CEng).state

NavigateToCachedId(id) ==
    /\ BecomesCached(navigateToCached(CEng, id),
                     [NoCall EXCEPT !.op = "navigateTo", !.id = id])
    /\ UNCHANGED <<config, saveMigrationMap, persistence, profile, awaited>>

ForwardCachedBy(step) ==
    /\ BecomesCached(forwardCached(CEng, step),
                     [NoCall EXCEPT !.op = "forward", !.step = step])
    /\ UNCHANGED <<config, saveMigrationMap, persistence, profile, awaited>>

BackwardCachedBy(step) ==
    /\ BecomesCached(backwardCached(CEng, step),
                     [NoCall EXCEPT !.op = "backward", !.step = step])
    /\ UNCHANGED <<config, saveMigrationMap, persistence, profile, awaited>>

SetVarsCachedWith(producer) ==
    /\ BecomesCached(setVarsCached(CEng, producer),
                     [NoCall EXCEPT !.op = "setVars",
                                    !.kind = producer.kind])
    /\ UNCHANGED <<config, saveMigrationMap, persistence, profile, awaited>>

\* the calls in flight whose callback has settled, in the order in which
\* they settled, and the others
Settled(frames) == SelectSeq(frames, LAMBDA frame : frame.phase = "end")

Awaiting(frames) == SelectSeq(frames, LAMBDA frame : frame.phase # "end")

Without(frames, i) ==
    SubSeq(frames, 1, i - 1) \o SubSeq(frames, i + 1, Len(frames))

\* no call is in flight
Idle == pending = << >>

\* a call of the handler is in flight
InFlight(op) == \E i \in 1 .. Len(pending) : pending[i].op = op

\* `await callback()` in the wrapper: the wrappers are resumed in the order
\* in which their callbacks settle, so the calls that have settled are kept
\* first in `pending`, in that order
WithSettled(frames, frame) ==
    Settled(frames) \o <<[frame EXCEPT !.phase = "end"]>> \o Awaiting(frames)

WithCalled(frames, frame) ==
    IF frame.phase = "end" THEN WithSettled(frames, frame)
    ELSE Append(frames, frame)

\* the event the wrapper emits before the callback, and the one it emits
\* after the callback has settled
StartEventOf(frame) ==
    emitSaveOrLoadEventWhenAttemptingToSaveOrLoadInCallback(
        IF frame.op \in {"saveToSaveSlot", "saveToExport"} THEN "save"
        ELSE "load", frame.threw)[1]

EndEventOf(frame) ==
    emitSaveOrLoadEventWhenAttemptingToSaveOrLoadInCallback(
        IF frame.op \in {"saveToSaveSlot", "saveToExport"} THEN "save"
        ELSE "load", frame.threw)[2]

\* the record of a step of the call in flight `frame`
StepOf(frame, part) ==
    [NoCall EXCEPT !.op = frame.op, !.part = part, !.slot = frame.slot,
                   !.from = index, !.count = Len(stateSnapshots),
                   !.threw = frame.threw]

\* saveToSaveSlot(saveSlot) is called: :saveStart is emitted, the save
\* data is built and persistence.set is called; the call then awaits the
\* adapter.  A slot that is not valid makes the callback throw at once.
SaveToSaveSlotOf(saveSlot) ==
    LET res == saveToSaveSlotCached(CEng, saveSlot)
        frame == [NoFrame EXCEPT !.op = "saveToSaveSlot",
                                 !.slot = saveSlot,
                                 !.phase = IF res.threw THEN "end"
                                           ELSE "set",
                                 !.threw = res.threw,
                                 !.write = res.write]
    IN  /\ Len(pending) < MaxPending
        /\ BecomesCached(
               res, [StepOf(frame, "called") EXCEPT
                        !.events = <<StartEventOf(frame)>>])
        /\ pending' = WithCalled(pending, frame)
        /\ UNCHANGED <<config, saveMigrationMap, persistence, profile,
                       clock, otherPending>>

\* how loadSaveFromData classifies the save persistence.get answered with
SaveCompatibilityOf(got) ==
    IF got = {} THEN Undef
    ELSE isSaveCompatibleWithEngine(
             Parse((CHOOSE entry \in got : TRUE).value).saveVersion,
             config.saveVersion, config.saveCompatibilityMode)

\* loadFromSaveSlot(saveSlot) is called: :loadStart is emitted and
\* persistence.get is called; the call then awaits the adapter.  A slot
\* that is not valid makes the callback throw at once.
LoadFromSaveSlotOf(saveSlot) ==
    LET threw == getSaveKeyThrows(saveSlot)
        frame == [NoFrame EXCEPT
                     !.op = "loadFromSaveSlot", !.slot = saveSlot,
                     !.phase = IF threw THEN "end" ELSE "get",
                     !.threw = threw,
                     !.asks = IF threw THEN << >>
                              ELSE <<getSaveKeyFromSaveSlotNumber(saveSlot)>>,
                     !.reading = TRUE]
    IN  /\ Len(pending) < MaxPending
        /\ last' = [StepOf(frame, "called") EXCEPT
                       !.events = <<StartEventOf(frame)>>]
        /\ pending' = WithCalled(pending, frame)
        /\ UNCHANGED <<initialState, stateSnapshots, index, config,
                       stateCache, saveMigrationMap, persistence, profile,
                       clock, otherPending>>

\* the adapter does what persistence.set was called with by the call in
\* flight at i (an adapter may write while it is called, or later); its
\* promise is still pending
SetLands ==
    \E i \in 1 .. Len(pending) :
        /\ pending[i].phase = "set"
        /\ LET frame == pending[i]
               entry == CHOOSE entry \in frame.write : TRUE
           IN  /\ persistence' =
                      PersistenceSet(persistence, entry.key, entry.value,
                                     entry.madeFrom)
               /\ pending' = [pending EXCEPT ![i].phase = "written",
                                              ![i].write = {}]
               /\ last' = StepOf(frame, "written")
        /\ UNCHANGED <<initialState, stateSnapshots, index, config,
                       stateCache, saveMigrationMap, profile, clock,
                       otherPending>>

\* the promise of persistence.set resolves and the call in flight at i goes
\* on: the callback of saveToSaveSlot settles, setAchievements and
\* setSettings return
SetAnswers ==
    \E i \in 1 .. Len(pending) :
        /\ pending[i].phase = "written"
        /\ pending' =
               IF pending[i].op = "saveToSaveSlot"
               THEN WithSettled(Without(pending, i), pending[i])
               ELSE Without(pending, i)
        /\ last' = StepOf(pending[i], "resumed")
        /\ UNCHANGED <<initialState, stateSnapshots, index, config,
                       stateCache, saveMigrationMap, persistence, profile,
                       clock, otherPending>>

\* the adapter reads what it holds under the key persistence.get was called
\* with by the call in flight at i (an adapter may read while it is called,
\* or later); its promise is still pending
GetReads ==
    \E i \in 1 .. Len(pending) :
        /\ pending[i].phase = "get"
        /\ pending' =
               [pending EXCEPT
                   ![i].phase = "got",
                   ![i].found =
                       PersistenceFound(persistence, Head(pending[i].asks))]
        /\ last' = StepOf(pending[i], "read")
        /\ UNCHANGED <<initialState, stateSnapshots, index, config,
                       stateCache, saveMigrationMap, persistence, profile,
                       clock, otherPending>>

\* the adapter lists the keys it holds for the call in flight at i, in its
\* own order; its promise is still pending
KeysRead ==
    \E i \in 1 .. Len(pending) :
        /\ pending[i].phase = "keys"
        /\ \E keys \in Orders({entry.key : entry \in persistence}) :
               pending' = [pending EXCEPT ![i].phase = "listed",
                                          ![i].asks = keys]
        /\ last' = StepOf(pending[i], "read")
        /\ UNCHANGED <<initialState, stateSnapshots, index, config,
                       stateCache, saveMigrationMap, persistence, profile,
                       clock, otherPending>>

\* the save getSaves() yields for the entry found under a key, with the key
\* it was read from.  The slot of a normal save is the number after "slot"
\* in the key, -1 when there is none; an autosave has no slot (0 here).
SaveYielded(entry) ==
    [type |-> IF entry.key = getSaveKeyFromSaveSlotNumber(0)
              THEN "autosave" ELSE "normal",
     slot |-> IF entry.key = getSaveKeyFromSaveSlotNumber(0) THEN 0
              ELSE IF PartsOf(entry.key).kind = "slot"
                   THEN PartsOf(entry.key).slot
              ELSE -1,
     data |-> Parse(entry.value),
     key |-> entry.key]

\* #getMostRecentSave(), one iteration: the first save is kept until one
\* with a later savedOn is yielded
MoreRecent(got, found) ==
    IF found = {} THEN got
    ELSE IF got = {} THEN found
    ELSE IF Parse((CHOOSE entry \in found : TRUE).value).savedOn
                > Parse((CHOOSE entry \in got : TRUE).value).savedOn
         THEN found
    ELSE got

\* the call in flight `frame` after persistence.get answered with
\* frame.found.  A presence check of #getKeysOfPresentSaves that found
\* something yields the key, which getSaves reads with persistence.get; one
\* that found nothing goes on to the next key.  A read that found nothing
\* yields no save (`continue`); one that found a save yields it, to the
\* story (getSaves) or to #getMostRecentSave (loadRecentSave), and the next
\* key is asked for.
AfterGet(frame) ==
    IF ~frame.reading
    THEN IF frame.found # {}
         THEN [frame EXCEPT !.reading = TRUE, !.found = {}]
         ELSE [frame EXCEPT !.asks = Tail(@), !.found = {}]
    ELSE [frame EXCEPT
             !.asks = Tail(@),
             !.reading = frame.op = "loadFromSaveSlot" \/ HasKeys,
             !.found = {},
             !.got = IF frame.op = "loadRecentSave"
                     THEN MoreRecent(@, frame.found)
                     ELSE frame.found,
             !.saves = IF frame.op = "getSaves" /\ frame.found # {}
                       THEN Append(@, SaveYielded(CHOOSE entry \in
                                                      frame.found : TRUE))
                       ELSE @]

\* the callback of loadRecentSave() after #getMostRecentSave() returned
loadRecentSave(e, got) ==
    IF got = {} THEN [e |-> e, threw |-> TRUE, called |-> << >>]
    ELSE loadSaveFromData(e, Parse((CHOOSE entry \in got : TRUE).value))

\* the call in flight at i goes on after a promise of the adapter resolved,
\* `read` being the call after the answer: it calls persistence.get with
\* the next key while there is one; else getSaves is done, and the callback
\* of a load throws when nothing was found and calls loadSaveFromData when
\* something was
GoesOn(i, read) ==
    IF read.asks # << >>
    THEN /\ pending' = [pending EXCEPT ![i] = [read EXCEPT !.phase = "get"]]
         /\ last' = StepOf(read, "asked")
         /\ UNCHANGED <<initialState, stateSnapshots, index, stateCache>>
    ELSE IF read.op = "getSaves"
    THEN /\ pending' = Without(pending, i)
         /\ last' = [StepOf(read, "returned") EXCEPT !.saves = read.saves]
         /\ UNCHANGED <<initialState, stateSnapshots, index, stateCache>>
    ELSE LET res == IF read.op = "loadRecentSave"
                    THEN loadRecentSave(CEng, read.got)
                    ELSE loadFromSaveSlot(CEng, read.got)
         IN  /\ BecomesCached(
                    res, [StepOf(read, "resumed") EXCEPT
                             !.verdict = SaveCompatibilityOf(read.got),
                             !.migraters = res.called,
                             !.loaded = read.got])
             /\ pending' =
                    WithSettled(Without(pending, i),
                                [read EXCEPT !.threw = res.threw,
                                             !.got = {}])

\* the promise of persistence.get resolves with what the adapter read, and
\* the call in flight at i goes on
GetAnswers ==
    \E i \in 1 .. Len(pending) :
        /\ pending[i].phase = "got"
        /\ GoesOn(i, AfterGet(pending[i]))
        /\ UNCHANGED <<config, saveMigrationMap, persistence, profile,
                       clock, otherPending>>

\* the promise of persistence.keys() resolves with the keys the adapter
\* listed, and the call in flight at i goes on: those that hold "slot" or
\* "autosave" are read one after the other
KeysAnswer ==
    \E i \in 1 .. Len(pending) :
        /\ pending[i].phase = "listed"
        /\ GoesOn(i, [pending[i] EXCEPT
                         !.asks = getKeysOfPresentSaves(persistence, {@}),
                         !.reading = TRUE])
        /\ UNCHANGED <<config, saveMigrationMap, persistence, profile,
                       clock, otherPending>>

\* the wrapper of the call that settled first is resumed: it emits the end
\* event and the call returns; saveToExport returns its string to the
\* story
CallReturns ==
    /\ pending # << >>
    /\ Head(pending).phase = "end"
    /\ LET frame == Head(pending)
       IN  /\ last' = [StepOf(frame, "returned") EXCEPT
                          !.events = <<EndEventOf(frame)>>]
           /\ exported' = IF frame.op = "saveToExport" THEN frame.data
                          ELSE exported
    /\ pending' = Tail(pending)
    /\ UNCHANGED <<initialState, stateSnapshots, index, config, stateCache,
                   saveMigrationMap, persistence, achievements,
                   settingsData, clock, otherPending>>

\* registerMigrators(...migrators) called by the story
RegisterMigratorsOf(migrators) ==
    LET res == registerMigrators(saveMigrationMap, migrators)
    IN  /\ saveMigrationMap' = res.map
        /\ last' = [NoCall EXCEPT !.op = "registerMigrators",
                                  !.from = index,
                                  !.count = Len(stateSnapshots),
                                  !.threw = res.threw]
        /\ UNCHANGED <<initialState, stateSnapshots, index, config,
                       stateCache, persistence, profile, awaited>>

\* #getMostRecentSave() on an adapter that holds `store` throughout: the
\* save read under the first of the keys, replaced by each later one whose
\* savedOn is greater
RECURSIVE MostRecentOf(_, _, _)
MostRecentOf(store, keys, got) ==
    IF keys = << >> THEN got
    ELSE MostRecentOf(store, Tail(keys),
                      MoreRecent(got, PersistenceFound(store, Head(keys))))

getMostRecentSave(store, listed) ==
    MostRecentOf(store, getKeysOfPresentSaves(store, listed), {})

\* #loadAchievements() and #loadSettings(): what the adapter holds under
\* the key replaces what the engine was constructed with
loadAchievements(store) ==
    IF PersistenceHas(store, achivementsStorageKey)
    THEN (CHOOSE entry \in store : entry.key = achivementsStorageKey).value
    ELSE InitialAchievements

loadSettings(store) ==
    IF PersistenceHas(store, settingsStorageKey)
    THEN (CHOOSE entry \in store : entry.key = settingsStorageKey).value
    ELSE InitialSettings

\* SugarboxEngine.init({..., config: cfg}) on a persistence adapter that
\* holds `store`, when its promise has fulfilled: the constructor has run,
\* the achievements and the settings stored have replaced the ones given,
\* and when cfg.loadOnStart is set the most recent save, if there is one,
\* has been given to loadSaveFromData (which rejects the promise of init
\* when it throws: no migration step is registered yet).  The engine is
\* handed to the story when init has returned, and the adapter is not
\* written while it runs.
ConstructedWith(cfg, store) ==
    /\ config = WithDefaults(cfg)
    /\ saveMigrationMap = {}
    /\ pending = << >>
    /\ clock = 0
    /\ otherPending = {}
    /\ persistence = store
    /\ achievements = loadAchievements(store)
    /\ settingsData = loadSettings(store)
    /\ exported = {}
    /\ \E listed \in IF HasKeys
                     THEN {{order} :
                              order \in Orders({entry.key : entry \in store})}
                     ELSE {{}} :
           LET constructed ==
                   CachedEngine(
                       [k \in Keys |->
                           IF k = "__id" THEN StartPassage
                           ELSE IF k = "__seed" THEN "0" ELSE "1"],
                       <<EmptySnapshot>>, 0, {})
               loadOnStart == "loadOnStart" \in DOMAIN cfg /\ cfg.loadOnStart
               mostRecentSave == IF loadOnStart
                                 THEN getMostRecentSave(store, listed)
                                 ELSE {}
               res == IF mostRecentSave = {}
                      THEN [e |-> constructed, threw |-> FALSE]
                      ELSE loadSaveFromData(
                               constructed,
                               Parse((CHOOSE entry \in mostRecentSave :
                                         TRUE).value))
           IN  /\ ~res.threw
               /\ initialState = res.e.initialState
               /\ stateSnapshots = res.e.stateSnapshots
               /\ index = res.e.index
               /\ stateCache = res.e.stateCache
               /\ last = [NoCall EXCEPT !.loaded = mostRecentSave]

\* the steps of the story in the specifications of saves: it navigates to
\* the shop, sets the variable to null, and moves the cursor by one
NavigateToShop == NavigateToCachedId("Shop")

SetVarsToNull ==
    \E producer \in {p \in Producers : p.kind = "write" /\ p.val = Null} :
        SetVarsCachedWith(producer)

ForwardByOne == ForwardCachedBy(1)

BackwardByOne == BackwardCachedBy(1)

\* a handler that emits events: the engine after it, the events emitted
\* before it returns, and the autosave it has called
Emits(res, call, events) ==
    /\ Len(pending) + Len(autoSaved(res.e, events)) <= MaxPending
    /\ BecomesCached(res, [call EXCEPT !.events = emitCustomEvents(events)])
    /\ pending' = pending \o autoSaved(res.e, events)
    /\ UNCHANGED <<config, saveMigrationMap, persistence, profile, clock,
                   otherPending>>

NavigateToEmitting ==
    \E id \in {"Shop", "Start"} :
        Emits(navigateToCached(CEng, id),
              [NoCall EXCEPT !.op = "navigateTo", !.id = id],
              navigateToEvents(CEng, id))

ForwardEmitting ==
    Emits(forwardCached(CEng, 1),
          [NoCall EXCEPT !.op = "forward", !.step = 1],
          forwardEvents(CEng, 1))

BackwardEmitting ==
    Emits(backwardCached(CEng, 1),
          [NoCall EXCEPT !.op = "backward", !.step = 1],
          backwardEvents(CEng, 1))

SetVarsEmitting ==
    \E producer \in {p \in Producers : p.kind = "write" /\ p.val = Null} :
        Emits(setVarsCached(CEng, producer),
              [NoCall EXCEPT !.op = "setVars", !.kind = producer.kind],
              setVarsEvents(CEng, producer))

\* saveToExport() is called: :saveStart is emitted and the export is built;
\* the callback settles at once.  The story keeps the string returned
\* last, with a note of what held when it was made (a history variable,
\* read by no operation).
SaveToExport ==
    LET res == saveToExportCached(CEng, settingsData, achievements)
        frame == [NoFrame EXCEPT
                     !.op = "saveToExport",
                     !.data = {[data |-> res.data,
                                madeFrom |->
                                    [index |-> index,
                                     served |-> VarsServed,
                                     settings |-> settingsData,
                                     achievements |-> achievements]]}]
    IN  /\ Len(pending) < MaxPending
        /\ BecomesCached(
               res, [StepOf(frame, "called") EXCEPT
                        !.events = <<StartEventOf(frame)>>])
        /\ pending' = WithCalled(pending, frame)
        /\ UNCHANGED <<config, saveMigrationMap, persistence, profile,
                       clock, otherPending>>

\* loadFromExport(data) is called: :loadStart is emitted, the string is
\* parsed and the five fields are replaced; the callback settles at once
LoadFromExportOf(data) ==
    LET res == loadFromExport(CEng, settingsData, achievements, data)
        frame == [NoFrame EXCEPT !.op = "loadFromExport",
                                 !.threw = res.threw]
    IN  /\ Len(pending) < MaxPending
        /\ BecomesCached(
               res, [StepOf(frame, "called") EXCEPT
                        !.events = <<StartEventOf(frame)>>])
        /\ settingsData' = res.settings
        /\ achievements' = res.achievements
        /\ pending' = WithCalled(pending, frame)
        /\ UNCHANGED <<config, saveMigrationMap, persistence, exported,
                       clock, otherPending>>

\* loadFromExport with a string saveToExport returned
LoadFromExport == \E entry \in exported : LoadFromExportOf(entry.data)

\* loadFromExport with a string that is not an export
LoadFromGarbage == LoadFromExportOf(NotAnExport)

\* setAchievements(state => { state.won = true }) is called: the producer
\* is applied and persistence.set is called with the achievements
SetAchievements ==
    LET frame == [NoFrame EXCEPT
                     !.op = "setAchievements", !.phase = "set",
                     !.write = {[key |-> achivementsStorageKey,
                                 value |-> achievements',
                                 madeFrom |-> achievements]}]
    IN  /\ Len(pending) < MaxPending
        /\ achievements' = [achievements EXCEPT !.won = TRUE]
        /\ pending' = WithCalled(pending, frame)
        /\ last' = StepOf(frame, "called")
        /\ UNCHANGED <<initialState, stateSnapshots, index, config,
                       stateCache, saveMigrationMap, persistence,
                       settingsData, exported, clock, otherPending>>

\* setSettings(state => { state.volume = "0" }) is called
SetSettings ==
    LET frame == [NoFrame EXCEPT
                     !.op = "setSettings", !.phase = "set",
                     !.write = {[key |-> settingsStorageKey,
                                 value |-> settingsData',
                                 madeFrom |-> settingsData]}]
    IN  /\ Len(pending) < MaxPending
        /\ settingsData' = [settingsData EXCEPT !.volume = "0"]
        /\ pending' = WithCalled(pending, frame)
        /\ last' = StepOf(frame, "called")
        /\ UNCHANGED <<initialState, stateSnapshots, index, config,
                       stateCache, saveMigrationMap, persistence,
                       achievements, exported, clock, otherPending>>

\* setAchievements and setSettings called by a story that awaits the calls
\* in flight first
AchievementsSet == Idle /\ SetAchievements

SettingsSet == Idle /\ SetSettings

\* getSaves() is iterated by the story: persistence.keys() is called when
\* the adapter has it, else persistence.get with the first key of the
\* fallback, as a presence check
CallOfGetSaves(op) ==
    LET frame == IF HasKeys
                 THEN [NoFrame EXCEPT !.op = op, !.phase = "keys"]
                 ELSE [NoFrame EXCEPT !.op = op, !.phase = "get",
                                      !.asks = FallbackKeys]
    IN  /\ Len(pending) < MaxPending
        /\ pending' = WithCalled(pending, frame)
        /\ last' = [StepOf(frame, "called") EXCEPT
                       !.events = IF op = "loadRecentSave"
                                  THEN <<StartEventOf(frame)>>
                                  ELSE << >>]
        /\ UNCHANGED <<initialState, stateSnapshots, index, config,
                       stateCache, saveMigrationMap, persistence, profile,
                       clock, otherPending>>

\* loadRecentSave() is called: :loadStart is emitted and
\* #getMostRecentSave() starts to iterate getSaves()
LoadRecentSave == CallOfGetSaves("loadRecentSave")

\* loadSaveFromData(save) is called by the story with the data of a save
\* the adapter holds (as getSaves() yields it): a synchronous handler,
\* which is not run inside the wrapper and emits no event
LoadSaveFromDataOf(entry) ==
    LET res == loadSaveFromData(CEng, Parse(entry.value))
    IN  /\ BecomesCached(
               res, [NoCall EXCEPT !.op = "loadSaveFromData",
                                   !.verdict = SaveCompatibilityOf({entry}),
                                   !.migraters = res.called,
                                   !.loaded = {entry}])
        /\ UNCHANGED <<config, saveMigrationMap, persistence, profile,
                       awaited>>

LoadSaveFromData ==
    \E entry \in {found \in persistence : IsKeyOfSave(found.key)} :
        LoadSaveFromDataOf(entry)

\* time passes
Tick ==
    /\ clock < MaxClock
    /\ clock' = clock + 1
    /\ UNCHANGED <<initialState, stateSnapshots, index, config, stateCache,
                   saveMigrationMap, persistence, profile, pending,
                   otherPending, last>>

----------------------------------------------------------------------------
(* Saving and loading: an engine of version 0.3.0, with or without a cache *)
(* adapter, saves to slot 1 and loads from it.                             *)

SaveEngineVersion == <<0, 3, 0>>

InitSave ==
    \E cache \in BOOLEAN :
        ConstructedWith([maxStateCount |-> 2, regenSeed |-> "false",
                         saveVersion |-> SaveEngineVersion,
                         cache |-> cache], {})

\* the story of these specifications saves when no call is in flight and
\* awaits a load before it loads again: it navigates, sets variables, moves
\* the cursor and loads while a save is in flight
SaveToSaveSlot == Idle /\ SaveToSaveSlotOf(1)

LoadFromSaveSlot == ~InFlight("loadFromSaveSlot") /\ LoadFromSaveSlotOf(1)

NextSave ==
    \/ NavigateToShop \/ SetVarsToNull \/ ForwardByOne \/ BackwardByOne
    \/ SaveToSaveSlot \/ LoadFromSaveSlot
    \/ SetLands \/ SetAnswers \/ GetReads \/ GetAnswers \/ CallReturns

SpecSave == InitSave /\ [][NextSave]_vars

----------------------------------------------------------------------------
(* Loading the save of another version: slot 2 of the persistence adapter  *)
(* holds a save made by version 0.1.0, 0.2.0 or 1.0.0 of the story, and    *)
(* the story registers a chain of migration steps.                         *)

\* the versions of the saves found in slot 2
ForeignVersions == {<<0, 1, 0>>, <<0, 2, 0>>, <<1, 0, 0>>}

\* the engine that made the save found in slot 2: it had navigated to the
\* shop
ForeignEngine ==
    Engine([k \in Keys |->
               IF k = "__id" THEN StartPassage
               ELSE IF k = "__seed" THEN "0" ELSE "1"],
           <<EmptySnapshot,
             [k \in Keys |-> IF k = "__id" THEN "Shop" ELSE Undef]>>,
           1)

ForeignSave(version) ==
    [key |-> getSaveKeyFromSaveSlotNumber(2),
     value |-> Stringify([SaveDataOf(ForeignEngine, "Shop") EXCEPT
                             !.saveVersion = version]),
     madeFrom |-> ForeignEngine]

InitMigrate ==
    \E cache \in BOOLEAN, version \in ForeignVersions :
        ConstructedWith([maxStateCount |-> 2, regenSeed |-> "false",
                         saveVersion |-> SaveEngineVersion,
                         cache |-> cache], {ForeignSave(version)})

\* a migration step between two versions
Migrator(from, to, migrater) ==
    [from |-> from,
     data |-> [to |-> VersionToString(to), migrater |-> migrater]]

\* the chains of migration steps the story registers: the whole chain from
\* 0.1.0 to 0.3.0, the chain without its second step, the chain with a
\* second step that throws, and a step from 1.0.0 back to 0.3.0
MigrationChains ==
    {<<Migrator(<<0, 1, 0>>, <<0, 2, 0>>, "addOne"),
       Migrator(<<0, 2, 0>>, <<0, 3, 0>>, "double")>>,
     <<Migrator(<<0, 1, 0>>, <<0, 2, 0>>, "addOne")>>,
     <<Migrator(<<0, 1, 0>>, <<0, 2, 0>>, "addOne"),
       Migrator(<<0, 2, 0>>, <<0, 3, 0>>, "throws")>>,
     <<Migrator(<<1, 0, 0>>, <<0, 3, 0>>, "addOne")>>}

RegisterChain ==
    \E migrators \in MigrationChains : RegisterMigratorsOf(migrators)

LoadForeignSave == LoadFromSaveSlotOf(2)

NextMigrate ==
    \/ NavigateToShop \/ SetVarsToNull \/ BackwardByOne
    \/ RegisterChain \/ LoadForeignSave \/ GetReads \/ GetAnswers
    \/ CallReturns

SpecMigrate == InitMigrate /\ [][NextMigrate]_vars

----------------------------------------------------------------------------
(* The migration loop, one iteration at a time: the while loop of           *)
(* loadSaveFromData's outdatedSave branch runs as long as the version       *)
(* reached is not the engine's, so it is a process of its own here.  While  *)
(* it runs, `last` holds the local variables of the call.                   *)

\* the local variables of loadSaveFromData when the loop begins
MigrationBegun(e, saveSlot, save) ==
    [op |-> "migrating", slot |-> saveSlot,
     saveToMigrateVersionString |-> VersionToString(save.saveVersion),
     migrated |-> FALSE, migratedState |-> EmptySnapshot,
     originalInitialState |-> e.initialState,
     originalStateSnapshots |-> e.stateSnapshots,
     originalIndex |-> e.index,
     threw |-> FALSE]

\* the catch block: the three fields are put back and the error is rethrown
MigrationRolledBack(e, frame) ==
    [e |-> [e EXCEPT !.initialState = frame.originalInitialState,
                     !.stateSnapshots = frame.originalStateSnapshots,
                     !.index = frame.originalIndex],
     threw |-> TRUE, returned |-> TRUE, frame |-> frame]

\* one evaluation of the loop condition and, when it holds, one run of the
\* loop body; when it does not hold, the statements after the loop
MigrationIteration(e, frame) ==
    IF frame.saveToMigrateVersionString = VersionToString(config.saveVersion)
    THEN IF frame.migrated
         THEN [e |-> [rewriteStateCached(e, frame.migratedState)
                         EXCEPT !.stateCache = CacheClear(@)],
               threw |-> FALSE, returned |-> TRUE, frame |-> frame]
         ELSE MigrationRolledBack(e, frame)
    ELSE IF ~MigrationMapHas(saveMigrationMap,
                             frame.saveToMigrateVersionString)
    THEN MigrationRolledBack(e, frame)
    ELSE LET migratorData ==
                 MigrationMapGet(saveMigrationMap,
                                 frame.saveToMigrateVersionString)
             read == varsWithMetadataCached(e)
             after == IF frame.migrated THEN e ELSE read.e
             currentStateToMigrate ==
                 IF frame.migrated THEN frame.migratedState ELSE read.state
         IN  IF migratorData.migrater = "throws"
             THEN MigrationRolledBack(after, frame)
             ELSE [e |-> after, threw |-> FALSE, returned |-> FALSE,
                   frame |->
                       [frame EXCEPT
                           !.saveToMigrateVersionString =
                               VersionToString(
                                   VersionFromJSON(migratorData.to)),
                           !.migrated = TRUE,
                           !.migratedState =
                               Migrate(migratorData.migrater,
                                       currentStateToMigrate)]]

InitLoop ==
    \E cache \in BOOLEAN, version \in ForeignVersions :
        ConstructedWith([maxStateCount |-> 2, regenSeed |-> "false",
                         saveVersion |-> SaveEngineVersion,
                         cache |-> cache], {ForeignSave(version)})

\* the step sets the story registers: the chain from 0.1.0 to 0.3.0, a
\* cycle between 0.1.0 and 0.2.0, a jump from 0.1.0 past the engine version
\* to 1.0.0, a step from 1.0.0 back to 0.3.0, and a step that throws
LoopChains ==
    {<<Migrator(<<0, 1, 0>>, <<0, 2, 0>>, "addOne"),
       Migrator(<<0, 2, 0>>, <<0, 3, 0>>, "double")>>,
     <<Migrator(<<0, 1, 0>>, <<0, 2, 0>>, "addOne"),
       Migrator(<<0, 2, 0>>, <<0, 1, 0>>, "double")>>,
     <<Migrator(<<0, 1, 0>>, <<1, 0, 0>>, "addOne")>>,
     <<Migrator(<<1, 0, 0>>, <<0, 3, 0>>, "double")>>,
     <<Migrator(<<0, 2, 0>>, <<0, 3, 0>>, "throws")>>}

\* no call of loadSaveFromData is running
NotMigrating == last.op # "migrating"

RegisterLoopChain ==
    /\ NotMigrating
    /\ \E migrators \in LoopChains : RegisterMigratorsOf(migrators)

NavigateWhileNotMigrating == NotMigrating /\ NavigateToShop

BackwardWhileNotMigrating == NotMigrating /\ BackwardByOne

\* loadFromSaveSlot(2) is called
LoadCalled == NotMigrating /\ LoadFromSaveSlotOf(2)

\* the adapter reads slot 2 for the call in flight
LoadRead == NotMigrating /\ GetReads

\* the promise of persistence.get resolves for the call in flight at i: an
\* outdated save is put in place and the loop begins (the call is then at
\* phase "run"); any other save is handled at once
LoadBegins ==
    /\ NotMigrating
    /\ \E i \in 1 .. Len(pending) :
           /\ pending[i].phase = "got"
           /\ LET found == pending[i].found
                  read == AfterGet(pending[i])
              IN  IF SaveCompatibilityOf(found) = "outdatedSave"
                  THEN LET save == Parse((CHOOSE entry \in found :
                                             TRUE).value)
                           installed == InstallSave(CEng, save)
                       IN  /\ initialState' = installed.initialState
                           /\ stateSnapshots' = installed.stateSnapshots
                           /\ index' = installed.index
                           /\ last' = MigrationBegun(CEng, 2, save)
                           /\ pending' =
                                  [pending EXCEPT
                                      ![i] = [read EXCEPT !.phase = "run"]]
                           /\ UNCHANGED stateCache
                  ELSE GoesOn(i, read)
    /\ UNCHANGED <<config, saveMigrationMap, persistence, profile, clock,
                   otherPending>>

\* the loop goes on by one iteration, or loadSaveFromData returns and the
\* callback of the call settles
MigrationStep ==
    /\ last.op = "migrating"
    /\ LET res == MigrationIteration(CEng, last)
           i == CHOOSE i \in 1 .. Len(pending) : pending[i].phase = "run"
       IN  /\ initialState' = res.e.initialState
           /\ stateSnapshots' = res.e.stateSnapshots
           /\ index' = res.e.index
           /\ stateCache' = res.e.stateCache
           /\ last' = IF res.returned
                      THEN [NoCall EXCEPT !.op = "loadFromSaveSlot",
                                          !.part = "resumed",
                                          !.slot = last.slot,
                                          !.verdict = "outdatedSave",
                                          !.from = last.originalIndex,
                                          !.count =
                                              Len(last.originalStateSnapshots),
                                          !.loaded = pending[i].got,
                                          !.threw = res.threw]
                      ELSE res.frame
           /\ pending' = IF res.returned
                         THEN WithSettled(Without(pending, i),
                                          [pending[i] EXCEPT
                                              !.threw = res.threw,
                                              !.got = {}])
                         ELSE pending
    /\ UNCHANGED <<config, saveMigrationMap, persistence, profile, clock,
                   otherPending>>

\* the wrapper of the call is resumed and the call returns
LoadReturns == NotMigrating /\ CallReturns

NextLoop ==
    \/ RegisterLoopChain \/ NavigateWhileNotMigrating
    \/ BackwardWhileNotMigrating \/ LoadCalled \/ LoadRead \/ LoadBegins
    \/ MigrationStep \/ LoadReturns

\* the call runs on the one thread of the story: once begun, the loop keeps
\* taking its iterations
SpecLoop == InitLoop /\ [][NextLoop]_vars /\ WF_vars(MigrationStep)

----------------------------------------------------------------------------
(* Chains that end at another patch of the engine's version: the engine is *)
(* 0.3.0 and the story registers steps that lead to 0.3.0 or to 0.3.1.     *)

InitPatch ==
    \E cache \in BOOLEAN, version \in ForeignVersions :
        ConstructedWith([maxStateCount |-> 2, regenSeed |-> "false",
                         saveVersion |-> SaveEngineVersion,
                         cache |-> cache], {ForeignSave(version)})

PatchChains ==
    {<<Migrator(<<0, 1, 0>>, <<0, 2, 0>>, "addOne"),
       Migrator(<<0, 2, 0>>, <<0, 3, 1>>, "double")>>,
     <<Migrator(<<0, 1, 0>>, <<0, 3, 0>>, "addOne")>>,
     <<Migrator(<<0, 2, 0>>, <<0, 3, 0>>, "double")>>,
     <<Migrator(<<0, 1, 0>>, <<0, 3, 1>>, "double")>>}

RegisterPatchChain ==
    \E migrators \in PatchChains : RegisterMigratorsOf(migrators)

NextPatch ==
    \/ NavigateToShop \/ BackwardByOne
    \/ RegisterPatchChain \/ LoadForeignSave \/ GetReads \/ GetAnswers
    \/ CallReturns

SpecPatch == InitPatch /\ [][NextPatch]_vars

----------------------------------------------------------------------------
(* Migration functions that build a new object: the story registers a      *)
(* chain whose last function returns the variables without the metadata    *)
(* fields, replaces the variables, navigates and loads the save.           *)

InitMetadata ==
    \E cache \in BOOLEAN, version \in ForeignVersions :
        ConstructedWith([maxStateCount |-> 2, regenSeed |-> "false",
                         saveVersion |-> SaveEngineVersion,
                         cache |-> cache], {ForeignSave(version)})

MetadataChains ==
    {<<Migrator(<<0, 1, 0>>, <<0, 2, 0>>, "addOne"),
       Migrator(<<0, 2, 0>>, <<0, 3, 0>>, "goldOnly")>>,
     <<Migrator(<<0, 1, 0>>, <<0, 3, 0>>, "double")>>}

RegisterMetadataChain ==
    \E migrators \in MetadataChains : RegisterMigratorsOf(migrators)

\* setVars with a producer that returns an object holding gold
SetVarsReplacing ==
    \E producer \in {p \in Producers :
                        p.kind = "replace" /\ p.obj["gold"] # Undef} :
        SetVarsCachedWith(producer)

NextMetadata ==
    \/ NavigateToShop \/ BackwardByOne \/ SetVarsReplacing
    \/ RegisterMetadataChain \/ LoadForeignSave \/ GetReads \/ GetAnswers
    \/ CallReturns

SpecMetadata == InitMetadata /\ [][NextMetadata]_vars

----------------------------------------------------------------------------
(* Imports of exports made on another version: the story holds the string  *)
(* an engine of version 0.1.0, 0.2.0, 1.0.0 or 0.3.0 exported after it had *)
(* navigated to the shop, registers migration steps and imports the string. *)

\* the export data of the foreign engine, made on the given version
ForeignExport(version) ==
    [data |->
        [saveData |-> Stringify([SaveDataOf(ForeignEngine, "Shop") EXCEPT
                                    !.saveVersion = version]),
         settings |-> InitialSettings,
         achievements |-> InitialAchievements],
     madeFrom |->
        [index |-> ForeignEngine.index,
         served |-> getStateAtIndex(ForeignEngine, ForeignEngine.index),
         settings |-> InitialSettings,
         achievements |-> InitialAchievements]]

InitImport ==
    \E cache \in BOOLEAN,
       version \in ForeignVersions \cup {SaveEngineVersion} :
        /\ initialState =
              [k \in Keys |->
                  IF k = "__id" THEN StartPassage
                  ELSE IF k = "__seed" THEN "0" ELSE "1"]
        /\ stateSnapshots = <<EmptySnapshot>>
        /\ index = 0
        /\ config = WithDefaults([maxStateCount |-> 2,
                                  regenSeed |-> "false",
                                  saveVersion |-> SaveEngineVersion,
                                  cache |-> cache])
        /\ stateCache = {}
        /\ saveMigrationMap = {}
        /\ pending = << >>
        /\ clock = 0
        /\ otherPending = {}
        /\ persistence = {}
        /\ achievements = InitialAchievements
        /\ settingsData = InitialSettings
        /\ exported = {ForeignExport(version)}
        /\ last = NoCall

NextImport ==
    \/ NavigateToShop \/ BackwardByOne \/ RegisterChain
    \/ SaveToExport \/ LoadFromExport \/ CallReturns

SpecImport == InitImport /\ [][NextImport]_vars

----------------------------------------------------------------------------
(* Registering migration steps: the story calls registerMigrators with one *)
(* or two steps, each from a version 0.n.0 to the next minor version.      *)

MigratorInputs ==
    {Migrator(<<0, n, 0>>, <<0, n + 1, 0>>, migrater) :
        n \in 0 .. (MaxVersionPart - 1), migrater \in Migraters}

MigratorsInputs ==
    {<<m>> : m \in MigratorInputs}
        \cup {<<m1, m2>> : m1 \in MigratorInputs, m2 \in MigratorInputs}

InitMigrators == ConstructedWith([saveVersion |-> SaveEngineVersion], {})

RegisterMigrators ==
    \E migrators \in MigratorsInputs : RegisterMigratorsOf(migrators)

NextMigrators == RegisterMigrators

SpecMigrators == InitMigrators /\ [][NextMigrators]_vars

----------------------------------------------------------------------------
(* The engine with a cache adapter: the story navigates, moves the cursor, *)
(* sets variables and draws random numbers.                                *)

InitCache ==
    ConstructedWith([maxStateCount |-> 2, regenSeed |-> "passage",
                     cache |-> TRUE], {})

NavigateToCached == \E id \in PassageIds : NavigateToCachedId(id)

ForwardCached == \E step \in 0 .. MaxStep : ForwardCachedBy(step)

BackwardCached == \E step \in 0 .. MaxStep : BackwardCachedBy(step)

SetVarsCached == \E producer \in Producers : SetVarsCachedWith(producer)

RandomCached ==
    LET drawn == randomCached(CEng)
    IN  /\ BecomesCached(drawn.res,
                         [NoCall EXCEPT !.op = "random",
                                        !.value = IF drawn.res.threw
                                                  THEN Undef
                                                  ELSE drawn.value])
        /\ UNCHANGED <<config, saveMigrationMap, persistence, profile, awaited>>

NextCache ==
    \/ NavigateToCached \/ ForwardCached \/ BackwardCached
    \/ SetVarsCached \/ RandomCached

SpecCache == InitCache /\ [][NextCache]_vars

----------------------------------------------------------------------------
(* The seed policies regenSeed: false and regenSeed: "eachCall", on an     *)
(* engine constructed with any initial seed.                               *)

InitSeed ==
    \E variables \in InitialVariables, initialSeed \in Seeds,
       regenSeed \in {"false", "eachCall"} :
        Constructed(variables, initialSeed,
                    [maxStateCount |-> 2, regenSeed |-> regenSeed,
                     initialSeed |-> initialSeed])

\* setVars with a producer that sets the variable to null, by assignment or
\* by returning a new object
SetVarsNulling ==
    \E producer \in {p \in Producers :
                         \/ p.kind = "write" /\ p.val = Null
                         \/ p.kind = "replace" /\ p.obj["gold"] = Null} :
        SetVarsWith(producer)

NextSeed == NavigateTo \/ Forward \/ Backward \/ SetVarsNulling \/ Random

SpecSeed == InitSeed /\ [][NextSeed]_vars

----------------------------------------------------------------------------
(* Determinism of random: an engine that regenerates its seed, with or     *)
(* without a cache adapter, draws numbers, navigates, moves the cursor,    *)
(* saves and loads.                                                        *)

InitDeterminism ==
    \E cache \in BOOLEAN, regenSeed \in {"passage", "eachCall"} :
        ConstructedWith([maxStateCount |-> 2, regenSeed |-> regenSeed,
                         saveVersion |-> SaveEngineVersion,
                         cache |-> cache], {})

\* the story of this specification awaits the call in flight before it
\* saves or loads; it draws numbers, navigates and moves the cursor while a
\* call is in flight
SaveWhenIdle == Idle /\ SaveToSaveSlotOf(1)

LoadWhenIdle == Idle /\ LoadFromSaveSlotOf(1)

NextDeterminism ==
    \/ NavigateToShop \/ ForwardByOne \/ BackwardByOne \/ RandomCached
    \/ SaveWhenIdle \/ LoadWhenIdle
    \/ SetLands \/ SetAnswers \/ GetReads \/ GetAnswers \/ CallReturns

SpecDeterminism == InitDeterminism /\ [][NextDeterminism]_vars

----------------------------------------------------------------------------
(* Save slots: an engine with two save slots saves to and loads from       *)
(* slots in and out of the range, exports and imports.                     *)

\* the slot numbers given to saveToSaveSlot and loadFromSaveSlot: a negative
\* one, the autosave slot, a slot of the range, the first slot past the
\* range and the one after
Slots == -1 .. 3

InitSlots ==
    ConstructedWith([maxStateCount |-> 2, regenSeed |-> "false",
                     saveVersion |-> SaveEngineVersion, saveSlots |-> 2,
                     cache |-> FALSE], {})

\* the story of this specification awaits the calls in flight before it
\* saves, loads, exports or imports an export; it navigates and imports a
\* string that is not an export while calls are in flight
SaveToAnySlot ==
    Idle /\ \E saveSlot \in Slots : SaveToSaveSlotOf(saveSlot)

LoadFromAnySlot ==
    Idle /\ \E saveSlot \in Slots : LoadFromSaveSlotOf(saveSlot)

ExportWhenIdle == Idle /\ SaveToExport

ImportWhenIdle == Idle /\ LoadFromExport

LoadRecentWhenIdle == Idle /\ LoadRecentSave

LoadSaveFromDataWhenIdle == Idle /\ LoadSaveFromData

NextSlots ==
    \/ NavigateToShop \/ BackwardByOne \/ SaveToAnySlot \/ LoadFromAnySlot
    \/ ExportWhenIdle \/ ImportWhenIdle \/ LoadFromGarbage
    \/ LoadRecentWhenIdle \/ LoadSaveFromDataWhenIdle
    \/ SetLands \/ SetAnswers \/ GetReads \/ GetAnswers \/ CallReturns

SpecSlots == InitSlots /\ [][NextSlots]_vars

----------------------------------------------------------------------------
(* Events and autosave: an engine without a cache adapter, with each       *)
(* autoSave policy, navigates, moves the cursor and sets variables.        *)

InitEvents ==
    \E autoSave \in {"false", "passage", "state"} :
        ConstructedWith([maxStateCount |-> 2, regenSeed |-> "false",
                         saveVersion |-> SaveEngineVersion,
                         autoSave |-> autoSave, cache |-> FALSE], {})

NextEvents ==
    NavigateToEmitting \/ ForwardEmitting \/ BackwardEmitting
        \/ SetVarsEmitting \/ SetLands \/ SetAnswers
        \/ CallReturns

SpecEvents == InitEvents /\ [][NextEvents]_vars

----------------------------------------------------------------------------
(* Engine names: the engine shares its persistence adapter, with or        *)
(* without keys(), with an engine of another name, and lists its saves.    *)

\* the engine named "Other": it has navigated to the shop
OtherEngine ==
    Engine([k \in Keys |->
               IF k = "__id" THEN StartPassage
               ELSE IF k = "__seed" THEN "0" ELSE "1"],
           <<EmptySnapshot,
             [k \in Keys |-> IF k = "__id" THEN "Shop" ELSE Undef]>>,
           1)

\* what the adapter holds when the other engine has saved before the
\* engine is made
OtherAutosave ==
    {[key |-> SaveKeyOf("Other", 0),
      value |-> Stringify(SaveDataOf(OtherEngine, "Shop")),
      madeFrom |-> OtherEngine]}

\* the engine is made on an adapter that holds nothing, or with loadOnStart
\* on an adapter that holds the autosave of the other engine
InitNames ==
    \E persistenceKeys \in BOOLEAN :
        \/ ConstructedWith([maxStateCount |-> 2, regenSeed |-> "false",
                            saveVersion |-> SaveEngineVersion,
                            saveSlots |-> 2,
                            persistenceKeys |-> persistenceKeys,
                            cache |-> FALSE], {})
        \/ ConstructedWith([maxStateCount |-> 2, regenSeed |-> "false",
                            saveVersion |-> SaveEngineVersion,
                            saveSlots |-> 2,
                            persistenceKeys |-> persistenceKeys,
                            cache |-> FALSE, loadOnStart |-> TRUE],
                           OtherAutosave)

\* the story of this specification awaits the calls in flight before it
\* saves or loads its most recent save, and lists its saves one listing at
\* a time; the other engine saves at any time
SaveToOwnSlot ==
    Idle /\ \E saveSlot \in 0 .. 1 : SaveToSaveSlotOf(saveSlot)

\* saveToSaveSlot(saveSlot) of the engine named "Other" is called: the
\* save data is built, with the time of the call, and persistence.set is
\* called with it.  The other story awaits a save before it saves again.
OtherEngineSaves ==
    \E saveSlot \in 0 .. 1 :
        /\ otherPending = {}
        /\ otherPending' =
               {[key |-> SaveKeyOf("Other", saveSlot),
                 value |-> Stringify(SaveDataOf(OtherEngine, "Shop")),
                 madeFrom |-> OtherEngine]}
        /\ last' = [NoCall EXCEPT !.op = "otherSaveToSaveSlot",
                                  !.part = "called",
                                  !.slot = saveSlot, !.from = index,
                                  !.count = Len(stateSnapshots)]
        /\ UNCHANGED <<initialState, stateSnapshots, index, config,
                       stateCache, saveMigrationMap, persistence, profile,
                       pending, clock>>

\* the adapter does what persistence.set was called with by the other
\* engine (it may write while it is called, or later)
OtherWriteLands ==
    \E write \in otherPending :
        /\ persistence' = PersistenceSet(persistence, write.key, write.value,
                                         write.madeFrom)
        /\ otherPending' = otherPending \ {write}
        /\ last' = [NoCall EXCEPT !.op = "otherSaveToSaveSlot",
                                  !.part = "written",
                                  !.slot = PartsOf(write.key).slot,
                                  !.from = index,
                                  !.count = Len(stateSnapshots)]
        /\ UNCHANGED <<initialState, stateSnapshots, index, config,
                       stateCache, saveMigrationMap, profile, pending,
                       clock>>

\* for await (const save of engine.getSaves())
GetSaves == Idle /\ CallOfGetSaves("getSaves")

NextNames ==
    SaveToOwnSlot \/ OtherEngineSaves \/ OtherWriteLands
        \/ GetSaves \/ LoadRecentWhenIdle \/ Tick
        \/ SetLands \/ SetAnswers \/ KeysRead \/ KeysAnswer
        \/ GetReads \/ GetAnswers \/ CallReturns

SpecNames == InitNames /\ [][NextNames]_vars

----------------------------------------------------------------------------
(* Export and import: an engine with or without a cache adapter whose      *)
(* story changes variables, achievements and settings, exports and         *)
(* imports.                                                                *)

\* what the adapter holds when an earlier session of the story has set
\* its achievements and its settings
EarlierProfile ==
    {[key |-> achivementsStorageKey, value |-> [won |-> TRUE],
      madeFrom |-> InitialAchievements],
     [key |-> settingsStorageKey, value |-> [volume |-> "0"],
      madeFrom |-> InitialSettings]}

InitExport ==
    \E cache \in BOOLEAN, store \in {{}, EarlierProfile} :
        ConstructedWith([maxStateCount |-> 2, regenSeed |-> "false",
                         saveVersion |-> SaveEngineVersion,
                         cache |-> cache], store)

\* the story of this specification awaits the call in flight before it
\* makes another asynchronous call; it navigates and sets variables while a
\* call is in flight
NextExport ==
    \/ NavigateToShop \/ SetVarsToNull
    \/ AchievementsSet \/ SettingsSet \/ ExportWhenIdle \/ ImportWhenIdle
    \/ SetLands \/ SetAnswers \/ CallReturns

SpecExport == InitExport /\ [][NextExport]_vars

----------------------------------------------------------------------------
(* Claims *)

\* the engine after the step
EngNext == Engine(initialState', stateSnapshots', index')

\* C1: the cursor is the index of a snapshot.
C1_IndexInRange == 0 <= index /\ index < Len(stateSnapshots)

\* C2: the history never holds more snapshots than maxStateCount.
C2_CapacityBound == Len(stateSnapshots) <= config.maxStateCount

\* the value the last write of key in snapshots 0 .. i left, or the value of
\* the initial state when no snapshot in 0 .. i defines the key
LastWrite(e, key, i) ==
    LET written == {j \in 0 .. i : e.stateSnapshots[j + 1][key] # Undef}
    IN  IF written = {} THEN e.initialState[key]
        ELSE e.stateSnapshots[
                 (CHOOSE j \in written : \A m \in written : m <= j) + 1][key]

\* C3: the state materialized at index k (clamped into the history) holds,
\* for every key, the value of the last snapshot in 0 .. k whose entry for
\* the key is not undefined - a null entry counts as a value - and the value
\* of the initial state when there is no such snapshot.
C3_FoldCorrect ==
    last.op = "getStateAtIndex" =>
        \A key \in Keys :
            last.result[key] =
                LastWrite(Eng, key,
                          Min(Max(0, last.step), Len(stateSnapshots) - 1))

\* C3 witness: a state was materialized in which a null written after a
\* value hides the value, and a later snapshot without the key is skipped.
C3_Witness ==
    /\ last.op = "getStateAtIndex"
    /\ last.step = 2
    /\ Len(stateSnapshots) = 3
    /\ stateSnapshots[1]["gold"] = "1"
    /\ stateSnapshots[2]["gold"] = Null
    /\ stateSnapshots[3]["gold"] = Undef
    /\ last.result["gold"] = Null

\* C4: a merge of the range [a, b] (b clamped to the last index) removes
\* b - a snapshots and leaves the state materialized at every surviving
\* position as it was: unchanged below a, and for every old index k >= b
\* equal to the state now materialized at k - (b - a).  The step is a call
\* of #mergeSnapshots(a, b) exactly when the record of the call says so.
C4_MergeInvariance ==
    [][(last'.op = "mergeSnapshots" /\ last'.lower <= last'.upper) =>
          LET a == last'.lower
              b == Min(last'.upper, lastSnapshotIndex(Eng))
          IN  /\ snapshotCount(EngNext) = snapshotCount(Eng) - (b - a)
              /\ \A k \in 0 .. (a - 1) :
                    getStateAtIndex(EngNext, k) = getStateAtIndex(Eng, k)
              /\ \A k \in b .. lastSnapshotIndex(Eng) :
                    getStateAtIndex(EngNext, k - (b - a)) =
                        getStateAtIndex(Eng, k)]_vars

\* C4 witness: the first two of three snapshots were merged into one that
\* holds a null and a passage id, and the third snapshot survives after it.
C4_Witness ==
    /\ last.op = "mergeSnapshots"
    /\ ~last.threw
    /\ last.lower = 0
    /\ last.upper = 1
    /\ last.count = 3
    /\ Len(stateSnapshots) = 2
    /\ stateSnapshots[1]["gold"] = Null
    /\ stateSnapshots[1]["__id"] = "Shop"
    /\ stateSnapshots[2]["gold"] = "1"

\* C5: a navigateTo from a rewound cursor (one that is not the last index)
\* leaves the cursor on the last index of the history, so that nothing of
\* the abandoned branch lies beyond it, and the state at the cursor is the
\* one of the passage navigated to.
C5_OverwriteOnDiverge ==
    [][\A id \in Passages :
          (index < lastSnapshotIndex(Eng) /\ NavigateToId(id)) =>
              /\ index' = lastSnapshotIndex(EngNext)
              /\ passageId(EngNext) = id]_vars

\* C6: forward(n) moves the cursor to min(index + n, snapshotCount - 1) and
\* backward(n) to max(index - n, 0); forward at the last index and backward
\* at index 0 change nothing.
C6_CursorClamping ==
    [][\A n \in 0 .. MaxStep :
          /\ ForwardBy(n) =>
                /\ index' = Min(index + n, lastSnapshotIndex(Eng))
                /\ index = lastSnapshotIndex(Eng) =>
                      UNCHANGED <<index, stateSnapshots, initialState>>
          /\ BackwardBy(n) =>
                /\ index' = Max(index - n, 0)
                /\ index = 0 =>
                      UNCHANGED <<index, stateSnapshots, initialState>>]_vars

\* the index of the snapshot that holds, after a merge of [0, upper], what
\* the cursor pointed at before it
LogicalIndexAfterMerge(e, upper) ==
    Max(e.index - Min(upper, lastSnapshotIndex(e)), 0)

\* C7: navigateTo(P) for a registered P moves the cursor onto a newly
\* created snapshot one position after the cursor's previous logical
\* location (index + 1 when no capacity merge is triggered), and passageId
\* is P afterwards.
C7_NavigateAdvancesByOne ==
    [][\A id \in Passages :
          NavigateToId(id) =>
              LET was == IF snapshotCount(Eng) >= config.maxStateCount
                            /\ lastSnapshotIndex(Eng) >= 1
                         THEN LogicalIndexAfterMerge(Eng, config.stateMergeCount)
                         ELSE index
              IN  /\ index' = was + 1
                  /\ HasSnapshotAtIndex(EngNext, index')
                  /\ \A k \in UserKeys :
                        getSnapshotAtIndex(EngNext, index')[k] = Undef
                  /\ passageId(EngNext) = id]_vars

\* C8: navigateTo with an id that was not added throws and leaves the
\* initial state, the snapshots and the cursor as they were.
C8_UnknownPassageRejected ==
    [][\A id \in PassageIds \ Passages :
          NavigateToId(id) =>
              /\ last'.threw
              /\ UNCHANGED <<initialState, stateSnapshots, index>>]_vars

\* C8 witness: navigateTo("Nowhere") threw on a full history with the cursor
\* rewound, where a valid navigation would have merged and overwritten.
C8_Witness ==
    /\ last.op = "navigateTo"
    /\ last.id = "Nowhere"
    /\ last.threw
    /\ Len(stateSnapshots) >= 2
    /\ Len(stateSnapshots) >= config.maxStateCount
    /\ index = 0
    /\ stateSnapshots[2]["gold"] = Null

\* C9: navigateTo changes no user variable of the state at the cursor.
C9_NavigateKeepsVariables ==
    [][\A id \in Passages :
          NavigateToId(id) =>
              \A k \in UserKeys :
                  varsWithMetadata(EngNext)[k] = varsWithMetadata(Eng)[k]]_vars

\* C10: setVars at cursor index k leaves the state materialized at every
\* index below k as it was.
C10_SetVarsKeepsEarlierStates ==
    [][\A producer \in Producers :
          SetVarsWith(producer) =>
              \A j \in 0 .. (index - 1) :
                  getStateAtIndex(EngNext, j) = getStateAtIndex(Eng, j)]_vars

\* C11: a setVars whose producer returns an object leaves every user key
\* the object does not mention at its last known value in the state at the
\* cursor, and gives every key it mentions the value it mentions.
C11_ReplacementKeepsUnmentioned ==
    [][\A producer \in {p \in Producers : p.kind = "replace"} :
          (HasSnapshotAtIndex(Eng, index) /\ SetVarsWith(producer)) =>
              \A k \in UserKeys :
                  varsWithMetadata(EngNext)[k] =
                      IF producer.obj[k] = Undef
                      THEN varsWithMetadata(Eng)[k]
                      ELSE producer.obj[k]]_vars

\* C12: a load from a slot that succeeds puts the engine back where it was
\* when the save it found was made (when saveToSaveSlot was called),
\* whatever was done in between: when the callback of the load has run, the
\* cursor index, the number of snapshots, the state materialized at every
\* history index, and the state `vars` serves at the cursor are those of
\* the engine that made the save.
C12_LoadRestoresSave ==
    [][(last'.op = "loadFromSaveSlot" /\ last'.part = "resumed"
            /\ ~last'.threw) =>
          LET saved == (CHOOSE entry \in last'.loaded : TRUE).madeFrom
          IN  /\ index' = saved.index
              /\ snapshotCount(EngNext) = snapshotCount(saved)
              /\ \A j \in 0 .. lastSnapshotIndex(saved) :
                     getStateAtIndex(EngNext, j) = getStateAtIndex(saved, j)
              /\ VarsServed' = getStateAtIndex(saved, saved.index)]_vars

\* a load has restored a save made at another cursor index and with another
\* number of snapshots than the engine had when the callback of the load
\* was resumed
C12_Witness ==
    /\ last.op = "loadFromSaveSlot"
    /\ last.part = "resumed"
    /\ ~last.threw
    /\ last.from # index
    /\ last.count # Len(stateSnapshots)
    /\ getStateAtIndex(Eng, index)["gold"] = Null

\* C13: a load that fails in a migration (a step of the chain is missing,
\* or a migration function throws) leaves the initial state, the snapshots,
\* the index and the state observable through `vars` exactly as they were
\* before loadSaveFromData was called.
C13_FailedMigrationRollsBack ==
    [][(last'.op = "loadFromSaveSlot" /\ last'.part = "resumed"
            /\ last'.threw /\ last'.verdict = "outdatedSave") =>
          /\ initialState' = initialState
          /\ stateSnapshots' = stateSnapshots
          /\ index' = index
          /\ VarsServed' = VarsServed]_vars

\* the chain 0.1.0 -> 0.2.0 -> 0.3.0 is registered, with the functions
\* addOne and double
FullChainRegistered ==
    saveMigrationMap =
        {[from |-> "0.1.0", to |-> "0.2.0", migrater |-> "addOne"],
         [from |-> "0.2.0", to |-> "0.3.0", migrater |-> "double"]}

\* C14: with the chain 0.1.0 -> 0.2.0 -> 0.3.0 registered, a load of an
\* outdated save calls the functions of the chain from the save's version
\* on, each once and in order, and the state of the engine afterwards is
\* what they make of the state the save materializes at its cursor.
C14_MigrationChainApplied ==
    [][(last'.op = "loadFromSaveSlot" /\ last'.part = "resumed"
            /\ last'.verdict = "outdatedSave" /\ FullChainRegistered) =>
          LET save == Parse((CHOOSE entry \in last'.loaded : TRUE).value)
              saved == Engine(save.intialState, save.snapshots,
                              save.storyIndex)
              atCursor == getStateAtIndex(saved, saved.index)
              fromFirst == save.saveVersion = <<0, 1, 0>>
              expected ==
                  IF fromFirst
                  THEN Migrate("double", Migrate("addOne", atCursor))
                  ELSE Migrate("double", atCursor)
          IN  /\ ~last'.threw
              /\ last'.migraters =
                     IF fromFirst THEN <<"addOne", "double">>
                     ELSE <<"double">>
              /\ getStateAtIndex(EngNext, index') = expected
              /\ VarsServed' = expected]_vars

\* C15: a load of a save classified as newer than the engine throws, calls
\* no migration function (even when a step is registered for the save's
\* version), and leaves the initial state, the snapshots and the cursor
\* unchanged.
C15_NewerSaveRejected ==
    [][(last'.op = "loadFromSaveSlot" /\ last'.part = "resumed"
            /\ last'.verdict = "newerSave") =>
          /\ last'.threw
          /\ last'.migraters = << >>
          /\ initialState' = initialState
          /\ stateSnapshots' = stateSnapshots
          /\ index' = index]_vars

\* a newer save was rejected although a migration step is registered for
\* its version, after the story had moved on from its first state
C15_Witness ==
    /\ last.op = "loadFromSaveSlot"
    /\ last.part = "resumed"
    /\ last.verdict = "newerSave"
    /\ last.threw
    /\ MigrationMapHas(saveMigrationMap, "1.0.0")
    /\ index = 1

\* C16: the verdict of isSaveCompatibleWithEngine depends on the major and
\* minor numbers only.  A higher major is a newer save and a lower major an
\* outdated one; with equal majors, strict mode calls the save compatible
\* exactly when the minors are equal (lower: outdated, higher: newer), and
\* liberal mode calls it compatible exactly when the save's minor is at
\* most the engine's, and newer otherwise.
C16_ClassificationByMajorMinor ==
    last.op = "isSaveCompatibleWithEngine" =>
        LET save == last.version
            engine == config.saveVersion
            mode == config.saveCompatibilityMode
            verdict == last.verdict
        IN  /\ save[1] > engine[1] => verdict = "newerSave"
            /\ save[1] < engine[1] => verdict = "outdatedSave"
            /\ (save[1] = engine[1] /\ mode = "strict") =>
                  /\ (verdict = "compatible") <=> (save[2] = engine[2])
                  /\ save[2] < engine[2] => verdict = "outdatedSave"
                  /\ save[2] > engine[2] => verdict = "newerSave"
            /\ (save[1] = engine[1] /\ mode = "liberal") =>
                  /\ (verdict = "compatible") <=> (save[2] <= engine[2])
                  /\ save[2] > engine[2] => verdict = "newerSave"
            /\ \A savePatch, enginePatch \in 0 .. MaxVersionPart :
                  isSaveCompatibleWithEngine(
                      <<save[1], save[2], savePatch>>,
                      <<engine[1], engine[2], enginePatch>>, mode) = verdict

\* in liberal mode a save of the same major, a lower minor and another patch
\* was called compatible
C16_Witness ==
    /\ last.op = "isSaveCompatibleWithEngine"
    /\ config.saveCompatibilityMode = "liberal"
    /\ last.version[1] = config.saveVersion[1]
    /\ last.version[2] < config.saveVersion[2]
    /\ last.version[3] > config.saveVersion[3]
    /\ last.verdict = "compatible"

\* C17: a call of registerMigrators that gives a step for a version that
\* already has one throws at once, and the step registered before stays:
\* every step of the map is still there with its target version and its
\* function, and no version has two steps.
C17_DuplicateMigrationRejected ==
    [][\A migrators \in MigratorsInputs :
          (/\ RegisterMigratorsOf(migrators)
           /\ \E i \in 1 .. Len(migrators) :
                  MigrationMapHas(saveMigrationMap,
                                  VersionToString(migrators[i].from))) =>
              /\ last'.threw
              /\ saveMigrationMap \subseteq saveMigrationMap'
              /\ \A one, other \in saveMigrationMap' :
                     one.from = other.from => one = other]_vars

\* a registration threw, and the map holds the steps registered before
C17_Witness ==
    /\ last.op = "registerMigrators"
    /\ last.threw
    /\ Cardinality(saveMigrationMap) >= 2

\* C18: the engine with a cache adapter shows what the engine without one
\* shows: the state `vars` serves at the cursor (the variables, the passage
\* id and the seed random draws from) is the state folded from the initial
\* state and the snapshots as they are now, so no cache entry is served
\* after the content of a snapshot at or before its index has changed.
C18_CacheNeverStale ==
    HasSnapshotAtIndex(Eng, index) => VarsServed = getStateAtIndex(Eng, index)

\* C19: the number random returns is drawn from the seed written nearest at
\* or before the cursor (the initial seed when no snapshot up to the cursor
\* holds one); and with regenSeed "passage" no forward, backward or random
\* changes the seed of any history index, so that random returns at index k
\* the same number after the cursor has moved away and come back.
C19_SeedFollowsCursor ==
    [][/\ last'.op = "random" =>
              last'.value = PrngFloat(LastWrite(Eng, "__seed", index))
       /\ (config.regenSeed = "passage"
               /\ last'.op \in {"forward", "backward", "random"}) =>
              /\ snapshotCount(EngNext) = snapshotCount(Eng)
              /\ \A j \in 0 .. lastSnapshotIndex(Eng) :
                     getStateAtIndex(EngNext, j)["__seed"] =
                         getStateAtIndex(Eng, j)["__seed"]]_vars

\* C20: with regenSeed "passage", a read of random changes neither the
\* initial state nor any snapshot, and the next read returns the same
\* number; a navigateTo to a known passage stamps the new snapshot (the one
\* at the cursor, or right after it when moving the cursor threw) with the
\* seed advanced from the seed that was active before the navigation, so
\* that random returns another number afterwards.
C20_SeedAdvancesPerPassage ==
    [][config.regenSeed = "passage" =>
          /\ last'.op = "random" =>
                /\ initialState' = initialState
                /\ stateSnapshots' = stateSnapshots
                /\ randomValue(EngNext) = last'.value
          /\ (last'.op = "navigateTo" /\ last'.id \in Passages) =>
                LET new == IF last'.threw THEN index' + 1 ELSE index'
                IN  /\ HasSnapshotAtIndex(EngNext, new)
                    /\ getSnapshotAtIndex(EngNext, new)["__seed"] =
                           PrngNext(currentStatePrngSeed(Eng))
                    /\ randomValue(EngNext) # randomValue(Eng)]_vars

\* C21: with regenSeed false the seed resolved at every history index is
\* the initial seed the engine was configured with, in every reachable
\* state, and every read of random returns the number drawn from it.
C21_SeedFixedWithoutRegen ==
    config.regenSeed = "false" =>
        /\ \A j \in 0 .. lastSnapshotIndex(Eng) :
               getStateAtIndex(Eng, j)["__seed"] = config.initialSeed
        /\ randomValue(Eng) = PrngFloat(config.initialSeed)
        /\ last.op = "random" => last.value = PrngFloat(config.initialSeed)

\* random was read with regenSeed false on a history of two snapshots whose
\* user variable had been replaced by setVars, on an engine whose initial
\* seed is not 0
C21_Witness ==
    /\ config.regenSeed = "false"
    /\ config.initialSeed # "0"
    /\ last.op = "random"
    /\ Len(stateSnapshots) = 2
    /\ initialState["gold"] = Null

\* C22: with regenSeed "eachCall" every read of random returns the number
\* drawn from the seed active at the cursor and writes the seed the
\* generator has advanced to into the snapshot at the cursor, so that the
\* next read is drawn from the advanced seed.
C22_SeedAdvancesEachCall ==
    [][(config.regenSeed = "eachCall" /\ last'.op = "random") =>
          LET advanced == PrngSeedAfterFloat(currentStatePrngSeed(Eng))
          IN  /\ ~last'.threw
              /\ last'.value = PrngFloat(currentStatePrngSeed(Eng))
              /\ HasSnapshotAtIndex(EngNext, index)
              /\ getSnapshotAtIndex(EngNext, index)["__seed"] = advanced
              /\ index' = index
              /\ currentStatePrngSeed(EngNext) = advanced]_vars


CEngNext == CachedEngine(initialState', stateSnapshots', index', stateCache')

\* C23: a load of a save of the very state the engine is in (the initial
\* state, the snapshots and the cursor are what they were) does not alter
\* the number the next read of random returns.
C23_RoundTripKeepsRandom ==
    [][(/\ last'.op = "loadFromSaveSlot"
        /\ last'.part = "resumed"
        /\ ~last'.threw
        /\ EngNext = Eng) =>
          randomCached(CEngNext).value = randomCached(CEng).value]_vars

\* C24: loadFromExport of the string saveToExport returned restores the
\* cursor, the state served at the cursor, the settings and the achievements
\* of the time saveToExport was called, whatever was changed since: they
\* hold as soon as loadFromExport has been called.
C24_ImportRestoresExport ==
    [][(last'.op = "loadFromExport" /\ last'.part = "called"
            /\ ~last'.threw) =>
          \E entry \in exported :
              /\ index' = entry.madeFrom.index
              /\ varsWithMetadataCached(CEngNext).state
                     = entry.madeFrom.served
              /\ settingsData' = entry.madeFrom.settings
              /\ achievements' = entry.madeFrom.achievements]_vars

\* C25: saveToSaveSlot with a negative slot, or a slot greater than or equal
\* to saveSlots, throws and writes nothing to the persistence adapter: its
\* callback has thrown when the call is made, no step of the call changes
\* what the adapter holds, and the call returns with the error.
C25_InvalidSlotNotSaved ==
    [][(/\ last'.op = "saveToSaveSlot"
        /\ \/ last'.slot < 0
           \/ last'.slot >= config.saveSlots) =>
          /\ last'.threw
          /\ persistence' = persistence]_vars

C25_Witness ==
    /\ last.op = "saveToSaveSlot"
    /\ last.part = "returned"
    /\ last.slot >= config.saveSlots
    /\ last.threw
    /\ PersistenceHas(persistence, getSaveKeyFromSaveSlotNumber(1))

\* C26: loadFromSaveSlot with a slot out of the range, or with a slot that
\* holds no data when the adapter is asked, throws and leaves the initial
\* state, the snapshots and the cursor as they were: no step of the call
\* changes them, and the call returns with the error.
C26_InvalidOrEmptySlotNotLoaded ==
    [][(/\ last'.op = "loadFromSaveSlot"
        /\ \/ last'.slot < 0
           \/ last'.slot >= config.saveSlots
           \/ last'.part = "resumed" /\ last'.loaded = {}
           \/ /\ last'.part = "returned"
              /\ ~PersistenceHas(persistence,
                                 getSaveKeyFromSaveSlotNumber(last'.slot))) =>
          /\ last'.threw
          /\ EngNext = Eng]_vars

C26_Witness ==
    /\ last.op = "loadFromSaveSlot"
    /\ last.part = "returned"
    /\ last.slot = 1
    /\ last.threw
    /\ PersistenceHas(persistence, getSaveKeyFromSaveSlotNumber(0))
    /\ ~PersistenceHas(persistence, getSaveKeyFromSaveSlotNumber(1))

\* the operations that save, load, export or import
SaveAndLoadOperations ==
    {"saveToSaveSlot", "loadFromSaveSlot", "loadRecentSave",
     "loadSaveFromData", "saveToExport", "loadFromExport"}

\* C27: every operation that saves, loads, exports or imports
\* (saveToSaveSlot, loadFromSaveSlot, loadRecentSave, loadSaveFromData,
\* saveToExport, loadFromExport) emits one start event and then one end
\* event of the same kind.  An operation that is awaited emits the start
\* event and nothing else when the call is made (the call is then in
\* flight), nothing while it is in flight, and the end event and nothing
\* else when it returns (it is then no longer in flight); a synchronous
\* operation emits the two, in this order, in its one step.  The end event
\* has type success exactly when the operation returned, and else type
\* error with the error that is thrown to the caller; the only save that
\* ends with an error is a saveToSaveSlot to a slot that is not valid.
C27_OneStartOneEnd ==
    [][last'.op \in SaveAndLoadOperations =>
          LET saving == last'.op \in {"saveToSaveSlot", "saveToExport"}
              events == last'.events
              start == IF saving THEN ":saveStart" ELSE ":loadStart"
              end == IF saving THEN ":saveEnd" ELSE ":loadEnd"
              ended(event) ==
                  /\ event.name = end
                  /\ event.type = "success" <=> ~last'.threw
                  /\ last'.threw => event.type = "error" /\ event.error
                  /\ saving =>
                         (event.type = "error"
                              <=> /\ last'.op = "saveToSaveSlot"
                                  /\ ~assertSaveSlotIsValid(last'.slot))
          IN  /\ last'.part = "whole" =>
                     /\ Len(events) = 2
                     /\ events[1].name = start
                     /\ ended(events[2])
                     /\ pending' = pending
              /\ last'.part = "called" =>
                     /\ Len(events) = 1
                     /\ events[1].name = start
                     /\ Len(pending') = Len(pending) + 1
              /\ last'.part \in {"written", "read", "asked", "resumed"} =>
                     /\ events = << >>
                     /\ Len(pending') = Len(pending)
              /\ last'.part = "returned" =>
                     /\ Len(events) = 1
                     /\ ended(events[1])
                     /\ Len(pending') = Len(pending) - 1]_vars

\* the :stateChange events among the events of the last call
StateChangesOf(events) ==
    {i \in 1 .. Len(events) : events[i].name = ":stateChange"}

\* C28: a setVars, a navigateTo, a forward and a backward that return emit
\* exactly one :stateChange, whose oldState is the complete state served
\* before the call and whose newState is the complete state served after.
C28_StateChangeCarriesCompleteStates ==
    [][(/\ last'.op \in {"setVars", "navigateTo", "forward", "backward"}
        /\ ~last'.threw) =>
          /\ Cardinality(StateChangesOf(last'.events)) = 1
          /\ \A i \in StateChangesOf(last'.events) :
                 /\ last'.events[i].oldState = VarsServed
                 /\ last'.events[i].newState
                        = varsWithMetadataCached(CEngNext).state]_vars

\* C29: with autoSave "passage" every navigateTo, forward and backward, and
\* with autoSave "state" every one of these and every setVars, that returns
\* or changes the engine calls persistence.set for the autosave slot with
\* the save of the engine after the call: its index, its snapshots and its
\* passage id.
C29_AutoSaveReflectsStateAfter ==
    [][(/\ \/ /\ config.autoSave = "passage"
              /\ last'.op \in {"navigateTo", "forward", "backward"}
           \/ /\ config.autoSave = "state"
              /\ last'.op \in {"navigateTo", "forward", "backward",
                                "setVars"}
        /\ ~last'.threw \/ EngNext # Eng) =>
          LET autosaveKey == getSaveKeyFromSaveSlotNumber(0)
          IN  /\ Len(pending') = Len(pending) + 1
              /\ \A entry \in pending'[Len(pending')].write :
                     /\ entry.key = autosaveKey
                     /\ Parse(entry.value)
                            = Parse(Stringify(
                                        SaveDataOf(EngNext,
                                                   passageId(EngNext))))
              /\ pending'[Len(pending')].op = "saveToSaveSlot"
              /\ pending'[Len(pending')].phase = "set"]_vars

\* C30: getSaves yields only saves read from keys of the engine's own name,
\* and loadRecentSave and the load on start of init load only a save read
\* from such a key, whatever an engine of another name wrote or writes to
\* the same adapter, with and without keys().
C30_SavesScopedByName ==
    /\ last.op = "getSaves" =>
           \A i \in 1 .. Len(last.saves) :
               PartsOf(last.saves[i].key).engineName = name
    /\ last.op \in {"loadRecentSave", "init"} =>
           \A entry \in last.loaded : PartsOf(entry.key).engineName = name

\* C31: a merge of the range [a, b] (b clamped to the last index) leaves a
\* cursor before the range where it is, moves a cursor at or after b down
\* by the b - a snapshots removed, and in every case the state at the cursor
\* after the merge is the state at the cursor before it.
C31_MergeKeepsCursorLocation ==
    [][(/\ last'.op = "mergeSnapshots"
        /\ ~last'.threw
        /\ last'.lower <= last'.upper
        /\ lastSnapshotIndex(Eng) >= 1) =>
          LET a == last'.lower
              b == Min(last'.upper, lastSnapshotIndex(Eng))
          IN  /\ index < a => index' = index
              /\ index >= b => index' = index - (b - a)
              /\ getStateAtIndex(EngNext, index')
                     = getStateAtIndex(Eng, index)]_vars

\* C32: a navigateTo to a registered passage with snapshotCount >=
\* maxStateCount leaves at most maxStateCount snapshots; the first is the
\* combination of the stateMergeCount + 1 oldest ones, and every later
\* snapshot is found stateMergeCount positions down, the position of the
\* new snapshot (one after the cursor's location) apart.
C32_CapacityMergeOfOldest ==
    [][(/\ last'.op = "navigateTo"
        /\ last'.id \in Passages
        /\ Len(stateSnapshots) >= config.maxStateCount) =>
          LET m == config.stateMergeCount
              n == Len(stateSnapshots)
              newAt == Max(index - m, 0) + 1
          IN  /\ Len(stateSnapshots') <= config.maxStateCount
              /\ stateSnapshots'[1] =
                     CombineSnapshots(EmptySnapshot, stateSnapshots,
                                      0 .. m, 0)
              /\ \A k \in (m + 1) .. (n - 1) :
                     (k - m # newAt /\ k - m < Len(stateSnapshots')) =>
                         stateSnapshots'[k - m + 1] = stateSnapshots[k + 1]]_vars

\* C33: forward(steps) and backward(steps) do not throw, whatever the sign
\* of steps and the position of the cursor.
C33_ForwardBackwardNeverThrow ==
    last.op \in {"forward", "backward"} => ~last.threw

\* C34: when a load has returned (loadFromSaveSlot, loadSaveFromData,
\* loadRecentSave or loadFromExport that succeeded, or a load whose migration
\* failed and was rolled back), every entry of the cache is the fold of the
\* initial state and the snapshots the engine then holds.
C34_NoStaleCacheAfterLoad ==
    (\/ last.op = "loadFromSaveSlot" /\ last.part = "resumed" /\ ~last.threw
     \/ last.op = "loadFromExport" /\ last.part = "called" /\ ~last.threw
     \/ /\ last.op = "loadFromSaveSlot"
        /\ last.part = "resumed"
        /\ last.threw
        /\ last.verdict = "outdatedSave") =>
        \A entry \in stateCache :
            entry.state = getStateAtIndex(Eng, entry.index)

\* what the migration functions named in called return, each given the
\* object the one before it returned
RECURSIVE MigratedBy(_, _)
MigratedBy(called, state) ==
    IF called = << >> THEN state
    ELSE MigratedBy(Tail(called), Migrate(Head(called), state))

\* C35: after a load that migrated an outdated save, the object the last
\* migration function returned is the initial state, every snapshot is
\* empty, the state materialized at every history index is that object, and
\* the number of snapshots and the cursor index are those of the save.
C35_MigrationRewritesState ==
    [][(/\ last'.op = "loadFromSaveSlot"
        /\ last'.part = "resumed"
        /\ ~last'.threw
        /\ last'.verdict = "outdatedSave") =>
          LET save == Parse((CHOOSE entry \in last'.loaded : TRUE).value)
              migratedState ==
                  MigratedBy(
                      last'.migraters,
                      varsWithMetadataCached(InstallSave(CEng, save)).state)
          IN  /\ initialState' = migratedState
              /\ \A i \in 1 .. Len(stateSnapshots') :
                     stateSnapshots'[i] = EmptySnapshot
              /\ \A j \in 0 .. lastSnapshotIndex(EngNext) :
                     /\ getStateAtIndex(EngNext, j) = migratedState
                     /\ getStateAtIndexCached(CEngNext, j).state
                            = migratedState
              /\ Len(stateSnapshots') = Len(save.snapshots)
              /\ index' = save.storyIndex]_vars

\* a migration of two steps has rewritten the state of an engine that held
\* fewer snapshots than the save, at another cursor index, and the save had
\* a snapshot that was not empty
C35_Witness ==
    /\ last.op = "loadFromSaveSlot"
    /\ last.part = "resumed"
    /\ ~last.threw
    /\ last.verdict = "outdatedSave"
    /\ Len(last.migraters) = 2
    /\ last.count < Len(stateSnapshots)
    /\ last.from # index
    /\ \E entry \in last.loaded :
           \E i \in 1 .. Len(Parse(entry.value).snapshots) :
               Parse(entry.value).snapshots[i] # EmptySnapshot

\* C36: a load of an outdated save that has begun its migration returns,
\* having completed or thrown, whatever steps are registered.
C36_MigrationTerminates ==
    (last.op = "migrating") ~> (last.op = "loadFromSaveSlot")

\* the steps registered in map lead from the version to one with the
\* engine's major and minor, in at most fuel steps, none of which throws
RECURSIVE ChainLeadsToEngineMinor(_, _, _)
ChainLeadsToEngineMinor(map, version, fuel) ==
    IF version[1] = config.saveVersion[1] /\ version[2] = config.saveVersion[2]
    THEN TRUE
    ELSE IF fuel = 0 \/ ~MigrationMapHas(map, VersionToString(version))
    THEN FALSE
    ELSE LET migratorData == MigrationMapGet(map, VersionToString(version))
         IN  /\ migratorData.migrater # "throws"
             /\ ChainLeadsToEngineMinor(
                    map, VersionFromJSON(migratorData.to), fuel - 1)

\* C37: a load of an outdated save succeeds when the registered steps lead
\* from the save's version to a version with the engine's major and minor,
\* whatever the patch of that version.
C37_PatchIgnoredAfterMigration ==
    (/\ last.op = "loadFromSaveSlot"
     /\ last.part = "resumed"
     /\ last.verdict = "outdatedSave"
     /\ ChainLeadsToEngineMinor(
            saveMigrationMap,
            Parse((CHOOSE entry \in last.loaded : TRUE).value).saveVersion,
            Cardinality(saveMigrationMap))) => ~last.threw

\* C38: in every state the engine reaches, the state materialized at the
\* cursor has a passage id and a PRNG seed that are defined.
C38_MetadataAlwaysDefined ==
    /\ passageId(Eng) # Undef
    /\ currentStatePrngSeed(Eng) # Undef

\* C39: saveToSaveSlot with a slot of the range 0 .. saveSlots - 1 writes
\* under a key of that numbered slot and of no other: what the adapter holds
\* under the autosave key and under the keys of the other slots is left as
\* it was.
C39_SlotKeysDistinct ==
    [][(/\ last'.op = "saveToSaveSlot"
        /\ last'.slot >= MINIMUM_SAVE_SLOT_INDEX
        /\ last'.slot < config.saveSlots) =>
          /\ \A entry \in persistence' \ persistence :
                 /\ PartsOf(entry.key).kind = "slot"
                 /\ PartsOf(entry.key).slot = last'.slot
          /\ \A entry \in persistence \ persistence' :
                 /\ PartsOf(entry.key).kind = "slot"
                 /\ PartsOf(entry.key).slot = last'.slot]_vars

\* C40: loadFromExport of an export leaves the initial state, the snapshots
\* and the index as loadSaveFromData of the export's save data would, and
\* throws when loadSaveFromData would throw, leaving them as they were.
C40_ImportChecksVersion ==
    [][(last'.op = "loadFromExport" /\ last'.part = "called") =>
          \E entry \in exported :
              LET res == loadSaveFromData(CEng, Parse(entry.data.saveData))
              IN  /\ last'.threw = res.threw
                  /\ initialState' = res.e.initialState
                  /\ stateSnapshots' = res.e.stateSnapshots
                  /\ index' = res.e.index]_vars

====
